---- MODULE Spec2Model ----
(***************************************************************************)
(* A model of src-tauri/src/main.rs of finkey (shortcut-finder): the        *)
(* active-window monitor, the main window's show/hide handlers and the      *)
(* configuration files' load and save.                                      *)
(*                                                                          *)
(* Option<T> is a sequence of length at most one: <<>> is None, <<x>> is    *)
(* Some(x).  A process name or a window title is a sequence of              *)
(* one-character strings.                                                   *)
(***************************************************************************)
EXTENDS Integers, Sequences, FiniteSets, TLC

\* Threads that call the commands (hotkey callback, tray menu, UI invoke).
NumCallers == 1

None == <<>>
Some(x) == <<x>>

\* --------------------------------------------------------------------------
\* Strings

\* str::ends_with
EndsWith(s, suffix) ==
    /\ Len(s) >= Len(suffix)
    /\ SubSeq(s, Len(s) - Len(suffix) + 1, Len(s)) = suffix

\* str::trim_end_matches: removes the suffix as often as it repeats at the end.
RECURSIVE TrimEndMatches(_, _)
TrimEndMatches(s, suffix) ==
    IF Len(suffix) > 0 /\ EndsWith(s, suffix)
    THEN TrimEndMatches(SubSeq(s, 1, Len(s) - Len(suffix)), suffix)
    ELSE s

ExeLower == <<".", "e", "x", "e">>
ExeUpper == <<".", "E", "X", "E">>

\* main.rs 1202-1204: name.trim_end_matches(".exe").trim_end_matches(".EXE")
StripExe(name) == TrimEndMatches(TrimEndMatches(name, ExeLower), ExeUpper)

\* --------------------------------------------------------------------------
\* The OS's foreground window, as the Win32 calls of the probe report it.

CurrentPid == 7

\* GetForegroundWindow() returned a null handle.
NoWindow == [hwnd |-> 0, pid |-> 0, exe |-> None, title |-> None]
\* The application's own main window.
OwnWindow == [hwnd |-> 1, pid |-> CurrentPid, exe |-> Some(<<"f", ".", "e", "x", "e">>),
              title |-> Some(<<"f">>)]
\* Other applications' windows.
AppA == [hwnd |-> 2, pid |-> 11, exe |-> Some(<<"a", ".", "e", "x", "e">>),
         title |-> Some(<<"A">>)]
\* A window whose process cannot be opened (OpenProcess fails) and has a title.
AppB == [hwnd |-> 3, pid |-> 12, exe |-> None, title |-> Some(<<"B">>)]

\* The windows that come to the foreground in the model.
ExternalWindows == {AppA, AppB}

Platforms == {"windows", "macos", "other"}

ActiveWindowInfo(process, window) == [process |-> process, window |-> window]

\* A probe that does not compare the window's process id with its own.
get_active_window_info_any(os, w) ==
    IF os = "windows"
    THEN IF w.hwnd = 0 THEN None
         ELSE IF w.pid = 0 THEN None
         ELSE Some(ActiveWindowInfo(
                 IF w.exe = None THEN None ELSE Some(StripExe(w.exe[1])),
                 w.title))
    ELSE None

\* active_window::get_active_window_info, per target_os.
get_active_window_info(os, w) ==
    IF os = "windows"
    THEN IF w.hwnd = 0 THEN None
         ELSE IF w.pid = 0 THEN None
         ELSE IF w.pid = CurrentPid THEN None
         ELSE Some(ActiveWindowInfo(
                 IF w.exe = None THEN None ELSE Some(StripExe(w.exe[1])),
                 w.title))
    ELSE None

\* --------------------------------------------------------------------------
\* State

VARIABLES
    platform,          \* the build's target_os
    LAST_ACTIVE_APP,   \* static Mutex<Option<ActiveWindowInfo>>
    WINDOW_VISIBLE,    \* static AtomicBool
    fg,                \* the OS's foreground window
    winExists,         \* app.get_window("main") is Some
    winVisible,        \* the main window's actual visibility
    shellUp,           \* the window shell serves requests (its calls return Ok)
    pending,           \* window events the shell has raised and not yet dispatched
    spc,               \* setup's position
    mpc,               \* the monitor thread's position
    mvisible,          \* the monitor thread's local `visible`
    minfo,             \* update_last_active_app's local `info`
    pc,                \* each handler thread's position
    op,                \* the handler each thread runs
    active_app,        \* toggle_window's local `active_app`
    did,               \* what a handler invocation has done so far, in order
    held,              \* LAST_ACTIVE_APP at the invocation's get_last_active_app()
    entry,             \* the window and the shell as they were when the handler was invoked
    pair               \* observer of two consecutive undisturbed toggles

windowVars == <<platform, LAST_ACTIVE_APP, WINDOW_VISIBLE, fg, winExists, winVisible,
                shellUp, pending, spc, mpc, mvisible, minfo, pc, op, active_app,
                did, held, entry, pair>>

\* The configuration files and the commands that load and save them.
VARIABLES
    cfgDir,            \* dirs::config_dir() and the shortcut-finder directory in it
    writable,          \* File::create and write_all succeed in that directory
    file,              \* the content of shortcuts.json and of apps.json
    edits,             \* how often the user's editor has rewritten a file
    cpc,               \* each command thread's position in load or save
    cop,               \* the function each command thread runs
    ckind,             \* which document it works on
    config,            \* the local `config` (load's default, save's argument)
    json,              \* save's local `json`
    loaded,            \* load's return value
    saved,             \* the Result of save
    found,             \* what the load found at the path
    cfentry,           \* the file as it was when the load was invoked
    alone,             \* nothing else touched the files during the invocation
    seen,              \* the documents stored or being saved during the load
    known,             \* per document: what the file is known to hold, and since when
    expect             \* `known` as it was when the load was invoked, while it stands

configVars == <<cfgDir, writable, file, edits, cpc, cop, ckind, config, json, loaded,
                saved, found, cfentry, alone, seen, known, expect>>

\* The get_matched_apps command.
VARIABLES
    request,           \* get_matched_apps' argument `info`
    apps_config,       \* the rules load_apps_config() returned
    matched,           \* get_matched_apps' return value
    parts,             \* match_apps' results for the two parts of the rules
    normalized         \* a rule, its normalize() and the normalize() of that

matchVars == <<request, apps_config, matched, parts, normalized>>

\* The overlay window and the show(shortcut_key) command.
VARIABLES
    overlayVisible,    \* the overlay window is shown
    now,               \* the clock
    overlay_duration,  \* Settings.overlay_duration, in ticks
    opc,               \* show's position
    odid,              \* what the show in progress (or the last one) has done, in order
    oentry,            \* the main window and the flag as they were when show was called
    timers             \* per show, in order: its key and its deferred hide

overlayVars == <<overlayVisible, now, overlay_duration, opc, odid, oentry, timers>>

\* The matcher under the exact policy.
VARIABLES
    exact_request,     \* match's argument `snapshot`
    bound_apps,        \* match's argument `rules`: entries with bind strings
    exact_matched      \* match's return value

exactVars == <<exact_request, bound_apps, exact_matched>>

\* The owner of LAST_ACTIVE_APP's mutex (Some(thread)), None when it is free.
VARIABLE mutex

\* The variables of the components other than the window and the files.
otherVars == <<matchVars, overlayVars, exactVars, mutex>>

vars == <<windowVars, configVars, otherVars>>

\* The event-loop thread, which runs on_window_event.
EventThread == 0
Callers == 1..NumCallers
Threads == {EventThread} \cup Callers

\* --------------------------------------------------------------------------
\* The window shell (tauri::Window).  Every call returns a Result; the calls
\* fail together when the shell no longer serves requests.

\* window.is_visible().unwrap_or(false)
is_visible == IF shellUp THEN winVisible ELSE FALSE

\* window.is_focused().unwrap_or(false): the window has the focus exactly when
\* it is the OS's foreground window.
is_focused == IF shellUp THEN fg = OwnWindow ELSE FALSE

\* What one handler invocation does, as entries of `did`.
Entry(call, event, payload) == [call |-> call, event |-> event, payload |-> payload]
Request(call) == Entry(call, "", None)
Emit(event, payload) == Entry("emit", event, payload)
Did(t, entries) == did' = [did EXCEPT ![t] = did[t] \o entries]
\* WINDOW_VISIBLE.store(v, SeqCst), as an entry of `did`
Stored(v) == Request(IF v THEN "store_true" ELSE "store_false")

\* window.show()
WindowShow ==
    /\ winVisible' = IF shellUp /\ winExists THEN TRUE ELSE winVisible
    /\ UNCHANGED <<fg, pending>>

\* window.hide(): hiding the focused window hands the foreground to another
\* window (or to none) and raises Focused(false).
WindowHide ==
    IF shellUp /\ winExists
    THEN /\ winVisible' = FALSE
         /\ IF fg = OwnWindow
            THEN /\ \E w \in ExternalWindows : fg' = w
                 /\ pending' = pending \cup {"FocusLost"}
            ELSE UNCHANGED <<fg, pending>>
    ELSE UNCHANGED <<winVisible, fg, pending>>

\* window.set_focus(): focusing the visible window makes it the foreground
\* window; the shell then raises Focused(true) (see FocusGained).
WindowSetFocus ==
    IF shellUp /\ winExists /\ winVisible /\ fg # OwnWindow
    THEN /\ fg' = OwnWindow
         /\ UNCHANGED <<winVisible, pending>>
    ELSE UNCHANGED <<winVisible, fg, pending>>

\* --------------------------------------------------------------------------
\* The observer of toggle(); toggle()

PairIdle == [phase |-> 0, v0 |-> FALSE, f0 |-> FALSE, payload |-> None, tracker |-> None]

Quiet == spc = "done" /\ \A t \in Threads : pc[t] = "idle"

\* Anything but a toggle and the monitor's poll ends the observation.
Disturb == pair' = PairIdle

\* --------------------------------------------------------------------------
\* The monitor thread (start_active_window_monitor) and update_last_active_app


\* MonitorLoad without the test of `visible`: every iteration updates.
MonitorLoadUnguarded ==
    /\ mpc = "load"
    /\ mvisible' = WINDOW_VISIBLE
    /\ mpc' = "probe"
    /\ UNCHANGED <<configVars, otherVars, platform, LAST_ACTIVE_APP, WINDOW_VISIBLE, fg, winExists, winVisible,
                   shellUp, pending, spc, minfo, pc, op, active_app, did, held, entry,
                   pair>>

\* let visible = WINDOW_VISIBLE.load(SeqCst); if !visible { update... }
MonitorLoad ==
    /\ UNCHANGED entry
    /\ mpc = "load"
    /\ mvisible' = WINDOW_VISIBLE
    /\ mpc' = IF ~WINDOW_VISIBLE THEN "probe" ELSE "sleep"
    /\ UNCHANGED <<configVars, otherVars, platform, LAST_ACTIVE_APP, WINDOW_VISIBLE, fg, winExists, winVisible,
                   shellUp, pending, spc, minfo, pc, op, active_app, did, held, pair>>

\* update_last_active_app: active_window::get_active_window_info()
MonitorProbe ==
    /\ UNCHANGED entry
    /\ mpc = "probe"
    /\ minfo' = get_active_window_info(platform, fg)
    /\ mpc' = "store"
    /\ UNCHANGED <<configVars, otherVars, platform, LAST_ACTIVE_APP, WINDOW_VISIBLE, fg, winExists, winVisible,
                   shellUp, pending, spc, mvisible, pc, op, active_app, did, held, pair>>

\* MonitorStore that stores the probe's result whatever it is.
MonitorStoreAlways ==
    /\ UNCHANGED entry
    /\ mpc = "store"
    /\ LAST_ACTIVE_APP' = minfo
    /\ minfo' = None
    /\ mpc' = "sleep"
    /\ UNCHANGED <<configVars, otherVars, platform, WINDOW_VISIBLE, fg, winExists, winVisible, shellUp, pending,
                   spc, mvisible, pc, op, active_app, did, held, pair>>

\* update_last_active_app: if let Some(info) { *LAST_ACTIVE_APP.lock() = Some(info) }
MonitorStore ==
    /\ UNCHANGED entry
    /\ mpc = "store"
    /\ LAST_ACTIVE_APP' = IF minfo # None THEN minfo ELSE LAST_ACTIVE_APP
    /\ minfo' = None
    /\ mpc' = "sleep"
    /\ UNCHANGED <<configVars, otherVars, platform, WINDOW_VISIBLE, fg, winExists, winVisible, shellUp, pending,
                   spc, mvisible, pc, op, active_app, did, held, pair>>

\* thread::sleep(200 ms), then the next iteration
MonitorSleep ==
    /\ UNCHANGED entry
    /\ mpc = "sleep"
    /\ mpc' = "load"
    /\ mvisible' = FALSE
    /\ UNCHANGED <<configVars, otherVars, platform, LAST_ACTIVE_APP, WINDOW_VISIBLE, fg, winExists, winVisible,
                   shellUp, pending, spc, minfo, pc, op, active_app, did, held, pair>>

\* get_last_active_app: LAST_ACTIVE_APP.lock().ok()?.clone()
get_last_active_app == LAST_ACTIVE_APP

\* --------------------------------------------------------------------------
\* main's setup closure

\* start_active_window_monitor(): thread::spawn
SetupStartMonitor ==
    /\ UNCHANGED entry
    /\ spc = "start"
    /\ mpc' = "load"
    /\ spc' = "register"
    /\ UNCHANGED <<configVars, otherVars, platform, LAST_ACTIVE_APP, WINDOW_VISIBLE, fg, winExists, winVisible,
                   shellUp, pending, mvisible, minfo, pc, op, active_app, did, held, pair>>

\* global_shortcut_manager().register(..) for the hotkey and for Escape
SetupRegister ==
    /\ UNCHANGED entry
    /\ spc = "register"
    /\ spc' = "store"
    /\ UNCHANGED <<configVars, otherVars, platform, LAST_ACTIVE_APP, WINDOW_VISIBLE, fg, winExists, winVisible,
                   shellUp, pending, mpc, mvisible, minfo, pc, op, active_app, did, held, pair>>

\* SetupStore that leaves the flag as it is.
SetupStoreSkipped ==
    /\ UNCHANGED entry
    /\ spc = "store"
    /\ spc' = "show"
    /\ UNCHANGED <<configVars, otherVars, platform, LAST_ACTIVE_APP, WINDOW_VISIBLE, fg, winExists,
                   winVisible, shellUp, pending, mpc, mvisible, minfo, pc, op, active_app, did,
                   held, pair>>

\* WINDOW_VISIBLE.store(true)
SetupStore ==
    /\ UNCHANGED entry
    /\ spc = "store"
    /\ WINDOW_VISIBLE' = TRUE
    /\ spc' = "show"
    /\ UNCHANGED <<configVars, otherVars, platform, LAST_ACTIVE_APP, fg, winExists, winVisible, shellUp, pending,
                   mpc, mvisible, minfo, pc, op, active_app, did, held, pair>>

\* window.center(); window.show()
SetupShow ==
    /\ UNCHANGED entry
    /\ spc = "show"
    /\ WindowShow
    /\ spc' = "focus"
    /\ UNCHANGED <<configVars, otherVars, platform, LAST_ACTIVE_APP, WINDOW_VISIBLE, winExists, shellUp,
                   mpc, mvisible, minfo, pc, op, active_app, did, held, pair>>

\* window.set_focus()
SetupFocus ==
    /\ UNCHANGED entry
    /\ spc = "focus"
    /\ WindowSetFocus
    /\ spc' = "done"
    /\ UNCHANGED <<configVars, otherVars, platform, LAST_ACTIVE_APP, WINDOW_VISIBLE, winExists, shellUp,
                   mpc, mvisible, minfo, pc, op, active_app, did, held, pair>>


\* --------------------------------------------------------------------------
\* Handler invocations.  Thread t runs one handler at a time; `did` collects
\* what the invocation stores, requests of the window and emits.

monitorVars == <<mpc, mvisible, minfo>>
handlerLocals == <<active_app, held>>

\* The main window as it was when toggle or hide was invoked: "Visible" (shown,
\* and the shell says so), "Hidden" (not shown) or "Unanswered" (shown, but the
\* shell does not answer).
NoEntry == ""
Enter(t) ==
    entry' = [entry EXCEPT ![t] = IF ~winVisible THEN "Hidden"
                                  ELSE IF shellUp THEN "Visible" ELSE "Unanswered"]

Goto(t, label) == pc' = [pc EXCEPT ![t] = label]

\* The handler returns.  A close request whose default was not prevented
\* destroys the window.
Return(t) ==
    /\ entry' = [entry EXCEPT ![t] = NoEntry]
    /\ pc[t] = "ret"
    /\ Goto(t, "idle")
    /\ op' = [op EXCEPT ![t] = ""]
    /\ did' = [did EXCEPT ![t] = <<>>]
    /\ active_app' = [active_app EXCEPT ![t] = None]
    /\ held' = [held EXCEPT ![t] = None]
    /\ winExists' = IF op[t] = "close" /\ Request("prevent_close") \notin
                                             {did[t][i] : i \in 1..Len(did[t])}
                    THEN FALSE ELSE winExists
    /\ pair' = IF op[t] = "toggle" /\ pair.phase \in {1, 3}
               THEN [pair EXCEPT !.phase = pair.phase + 1]
               ELSE PairIdle
    /\ UNCHANGED <<configVars, otherVars, platform, LAST_ACTIVE_APP, WINDOW_VISIBLE, fg, winVisible, shellUp,
                   pending, spc, monitorVars>>


\* ToggleBegin deciding on WINDOW_VISIBLE instead of window.is_visible().
ToggleBeginByFlag(t) ==
    /\ Enter(t)
    /\ spc = "done" /\ t \in Callers /\ pc[t] = "idle"
    /\ op' = [op EXCEPT ![t] = "toggle"]
    /\ Goto(t, IF ~winExists THEN "ret"
               ELSE IF WINDOW_VISIBLE THEN "tg_hide_store" ELSE "tg_last")
    /\ pair' = IF pair.phase = 2 THEN [pair EXCEPT !.phase = 3]
               ELSE IF Quiet
                    THEN [PairIdle EXCEPT !.phase = 1, !.v0 = winVisible,
                                          !.f0 = WINDOW_VISIBLE]
                    ELSE PairIdle
    /\ UNCHANGED <<configVars, otherVars, platform, LAST_ACTIVE_APP, WINDOW_VISIBLE, fg, winExists, winVisible,
                   shellUp, pending, spc, monitorVars, handlerLocals, did>>

\* toggle_window: app.get_window("main"), window.is_visible().unwrap_or(false)
ToggleBegin(t) ==
    /\ Enter(t)
    /\ spc = "done" /\ t \in Callers /\ pc[t] = "idle"
    /\ op' = [op EXCEPT ![t] = "toggle"]
    /\ Goto(t, IF ~winExists THEN "ret"
               ELSE IF is_visible THEN "tg_hide_store" ELSE "tg_last")
    /\ pair' = IF pair.phase = 2 THEN [pair EXCEPT !.phase = 3]
               ELSE IF Quiet
                    THEN [PairIdle EXCEPT !.phase = 1, !.v0 = winVisible,
                                          !.f0 = WINDOW_VISIBLE]
                    ELSE PairIdle
    /\ UNCHANGED <<configVars, otherVars, platform, LAST_ACTIVE_APP, WINDOW_VISIBLE, fg, winExists, winVisible,
                   shellUp, pending, spc, monitorVars, handlerLocals, did>>

\* toggle_window, visible branch: WINDOW_VISIBLE.store(false)
ToggleHideStore(t) ==
    /\ UNCHANGED entry
    /\ pc[t] = "tg_hide_store"
    /\ WINDOW_VISIBLE' = FALSE
    /\ Did(t, <<Stored(WINDOW_VISIBLE')>>)
    /\ Goto(t, "tg_hide")
    /\ UNCHANGED <<configVars, otherVars, platform, LAST_ACTIVE_APP, fg, winExists, winVisible, shellUp, pending,
                   spc, monitorVars, op, handlerLocals, pair>>


\* ToggleHide that also emits "window-hidden", as hide_window does.
ToggleHideEmits(t) ==
    /\ UNCHANGED entry
    /\ pc[t] = "tg_hide"
    /\ WindowHide
    /\ Did(t, <<Request("hide"), Emit("window-hidden", None)>>)
    /\ Goto(t, "ret")
    /\ UNCHANGED <<configVars, otherVars, platform, LAST_ACTIVE_APP, WINDOW_VISIBLE, winExists, shellUp, spc,
                   monitorVars, op, handlerLocals, pair>>

\* toggle_window, visible branch: let _ = window.hide()
ToggleHide(t) ==
    /\ UNCHANGED entry
    /\ pc[t] = "tg_hide"
    /\ WindowHide
    /\ Did(t, <<Request("hide")>>)
    /\ Goto(t, "ret")
    /\ UNCHANGED <<configVars, otherVars, platform, LAST_ACTIVE_APP, WINDOW_VISIBLE, winExists, shellUp, spc,
                   monitorVars, op, handlerLocals, pair>>

\* toggle_window, hidden branch: let active_app = get_last_active_app()
ToggleLast(t) ==
    /\ UNCHANGED entry
    /\ pc[t] = "tg_last"
    /\ active_app' = [active_app EXCEPT ![t] = get_last_active_app]
    /\ held' = [held EXCEPT ![t] = LAST_ACTIVE_APP]
    /\ Did(t, <<Request("last")>>)
    /\ Goto(t, "tg_show_store")
    /\ pair' = IF pair.phase \in {1, 3}
               THEN [pair EXCEPT !.tracker = LAST_ACTIVE_APP] ELSE pair
    /\ UNCHANGED <<configVars, otherVars, platform, LAST_ACTIVE_APP, WINDOW_VISIBLE, fg, winExists, winVisible,
                   shellUp, pending, spc, monitorVars, op>>

\* toggle_window, hidden branch: WINDOW_VISIBLE.store(true)
ToggleShowStore(t) ==
    /\ UNCHANGED entry
    /\ pc[t] = "tg_show_store"
    /\ WINDOW_VISIBLE' = TRUE
    /\ Did(t, <<Stored(WINDOW_VISIBLE')>>)
    /\ Goto(t, "tg_show")
    /\ UNCHANGED <<configVars, otherVars, platform, LAST_ACTIVE_APP, fg, winExists, winVisible, shellUp, pending,
                   spc, monitorVars, op, handlerLocals, pair>>

\* toggle_window, hidden branch: let _ = window.center(); let _ = window.show()
ToggleShow(t) ==
    /\ UNCHANGED entry
    /\ pc[t] = "tg_show"
    /\ WindowShow
    /\ Did(t, <<Request("center"), Request("show")>>)
    /\ Goto(t, "tg_focus")
    /\ UNCHANGED <<configVars, otherVars, platform, LAST_ACTIVE_APP, WINDOW_VISIBLE, winExists, shellUp, spc,
                   monitorVars, op, handlerLocals, pair>>


\* ToggleFocusEmit that reads the payload when it emits, not before the show.
ToggleFocusEmitLate(t) ==
    /\ UNCHANGED entry
    /\ pc[t] = "tg_focus"
    /\ WindowSetFocus
    /\ Did(t, <<Request("set_focus"), Emit("window-shown", get_last_active_app)>>)
    /\ Goto(t, "ret")
    /\ pair' = IF pair.phase \in {1, 3}
               THEN [pair EXCEPT !.payload = Some(get_last_active_app)] ELSE pair
    /\ UNCHANGED <<configVars, otherVars, platform, LAST_ACTIVE_APP, WINDOW_VISIBLE, winExists, shellUp, spc,
                   monitorVars, op, handlerLocals>>

\* toggle_window, hidden branch: let _ = window.set_focus();
\* let _ = window.emit("window-shown", active_app)
ToggleFocusEmit(t) ==
    /\ UNCHANGED entry
    /\ pc[t] = "tg_focus"
    /\ WindowSetFocus
    /\ Did(t, <<Request("set_focus"), Emit("window-shown", active_app[t])>>)
    /\ Goto(t, "ret")
    /\ pair' = IF pair.phase \in {1, 3}
               THEN [pair EXCEPT !.payload = Some(active_app[t])] ELSE pair
    /\ UNCHANGED <<configVars, otherVars, platform, LAST_ACTIVE_APP, WINDOW_VISIBLE, winExists, shellUp, spc,
                   monitorVars, op, handlerLocals>>

\* hide_main_window -> hide_window: app.get_window("main")
HideBegin(t) ==
    /\ Enter(t)
    /\ spc = "done" /\ t \in Callers /\ pc[t] = "idle"
    /\ op' = [op EXCEPT ![t] = "hide"]
    /\ Goto(t, IF winExists THEN "hd_store" ELSE "ret")
    /\ Disturb
    /\ UNCHANGED <<configVars, otherVars, platform, LAST_ACTIVE_APP, WINDOW_VISIBLE, fg, winExists, winVisible,
                   shellUp, pending, spc, monitorVars, handlerLocals, did>>

\* The Escape shortcut's closure: window.is_visible().unwrap_or(false) && ...
EscapeBegin(t) ==
    /\ UNCHANGED entry
    /\ spc = "done" /\ t \in Callers /\ pc[t] = "idle"
    /\ op' = [op EXCEPT ![t] = "escape"]
    /\ Goto(t, IF winExists /\ is_visible THEN "es_focused" ELSE "ret")
    /\ Disturb
    /\ UNCHANGED <<configVars, otherVars, platform, LAST_ACTIVE_APP, WINDOW_VISIBLE, fg, winExists, winVisible,
                   shellUp, pending, spc, monitorVars, handlerLocals, did>>

\* EscapeFocused without the test of the focus: a visible window is hidden.
EscapeUnfocused(t) ==
    /\ UNCHANGED entry
    /\ pc[t] = "es_focused"
    /\ Goto(t, IF winExists THEN "hd_store" ELSE "ret")
    /\ UNCHANGED <<configVars, otherVars, platform, LAST_ACTIVE_APP, WINDOW_VISIBLE, fg, winExists, winVisible,
                   shellUp, pending, spc, monitorVars, op, handlerLocals, did,
                   pair>>

\* The Escape shortcut's closure: ... && window.is_focused().unwrap_or(false),
\* then hide_window: app.get_window("main")
EscapeFocused(t) ==
    /\ UNCHANGED entry
    /\ pc[t] = "es_focused"
    /\ Goto(t, IF is_focused /\ winExists THEN "hd_store" ELSE "ret")
    /\ UNCHANGED <<configVars, otherVars, platform, LAST_ACTIVE_APP, WINDOW_VISIBLE, fg, winExists, winVisible,
                   shellUp, pending, spc, monitorVars, op, handlerLocals, did,
                   pair>>

\* hide_window: WINDOW_VISIBLE.store(false)
HideStore(t) ==
    /\ UNCHANGED entry
    /\ pc[t] = "hd_store"
    /\ WINDOW_VISIBLE' = FALSE
    /\ Did(t, <<Stored(WINDOW_VISIBLE')>>)
    /\ Goto(t, "hd_hide")
    /\ UNCHANGED <<configVars, otherVars, platform, LAST_ACTIVE_APP, fg, winExists, winVisible, shellUp, pending,
                   spc, monitorVars, op, handlerLocals, pair>>


\* HideEmit without the "window-hidden" notification.
HideNoEmit(t) ==
    /\ UNCHANGED entry
    /\ pc[t] = "hd_hide"
    /\ WindowHide
    /\ Did(t, <<Request("hide")>>)
    /\ Goto(t, "ret")
    /\ UNCHANGED <<configVars, otherVars, platform, LAST_ACTIVE_APP, WINDOW_VISIBLE, winExists, shellUp, spc,
                   monitorVars, op, handlerLocals, pair>>

\* hide_window: let _ = window.hide(); let _ = window.emit("window-hidden", ())
HideEmit(t) ==
    /\ UNCHANGED entry
    /\ pc[t] = "hd_hide"
    /\ WindowHide
    /\ Did(t, <<Request("hide"), Emit("window-hidden", None)>>)
    /\ Goto(t, "ret")
    /\ UNCHANGED <<configVars, otherVars, platform, LAST_ACTIVE_APP, WINDOW_VISIBLE, winExists, shellUp, spc,
                   monitorVars, op, handlerLocals, pair>>

\* on_window_event, WindowEvent::Focused(false)
FocusLostBegin ==
    /\ UNCHANGED entry
    /\ spc = "done" /\ pc[EventThread] = "idle" /\ "FocusLost" \in pending
    /\ pending' = pending \ {"FocusLost"}
    /\ op' = [op EXCEPT ![EventThread] = "focus_lost"]
    /\ Goto(EventThread, "fl_store")
    /\ Disturb
    /\ UNCHANGED <<configVars, otherVars, platform, LAST_ACTIVE_APP, WINDOW_VISIBLE, fg, winExists, winVisible,
                   shellUp, spc, monitorVars, handlerLocals, did>>

\* on_window_event, Focused(false): WINDOW_VISIBLE.store(false)
FocusLostStore ==
    /\ UNCHANGED entry
    /\ pc[EventThread] = "fl_store"
    /\ WINDOW_VISIBLE' = FALSE
    /\ Did(EventThread, <<Stored(WINDOW_VISIBLE')>>)
    /\ Goto(EventThread, "fl_hide")
    /\ UNCHANGED <<configVars, otherVars, platform, LAST_ACTIVE_APP, fg, winExists, winVisible, shellUp, pending,
                   spc, monitorVars, op, handlerLocals, pair>>

\* on_window_event, Focused(false): let _ = event.window().hide()
FocusLostHide ==
    /\ UNCHANGED entry
    /\ pc[EventThread] = "fl_hide"
    /\ WindowHide
    /\ Did(EventThread, <<Request("hide")>>)
    /\ Goto(EventThread, "ret")
    /\ UNCHANGED <<configVars, otherVars, platform, LAST_ACTIVE_APP, WINDOW_VISIBLE, winExists, shellUp, spc,
                   monitorVars, op, handlerLocals, pair>>


\* FocusGained with the test inverted: the handler hides on Focused(true).
FocusGainedHides ==
    /\ UNCHANGED entry
    /\ spc = "done" /\ pc[EventThread] = "idle" /\ fg = OwnWindow
    /\ op' = [op EXCEPT ![EventThread] = "focus_gained"]
    /\ Goto(EventThread, "fl_store")
    /\ Disturb
    /\ UNCHANGED <<configVars, otherVars, platform, LAST_ACTIVE_APP, WINDOW_VISIBLE, fg, winExists, winVisible,
                   shellUp, pending, spc, monitorVars, handlerLocals, did>>

\* on_window_event, WindowEvent::Focused(true), raised while the window has the
\* focus: `if !focused` is false and nothing is done
FocusGained ==
    /\ UNCHANGED entry
    /\ spc = "done" /\ pc[EventThread] = "idle" /\ fg = OwnWindow
    /\ op' = [op EXCEPT ![EventThread] = "focus_gained"]
    /\ Goto(EventThread, "ret")
    /\ Disturb
    /\ UNCHANGED <<configVars, otherVars, platform, LAST_ACTIVE_APP, WINDOW_VISIBLE, fg, winExists, winVisible,
                   shellUp, pending, spc, monitorVars, handlerLocals, did>>


\* CloseBegin without api.prevent_close().
CloseBeginDefault ==
    /\ UNCHANGED entry
    /\ spc = "done" /\ pc[EventThread] = "idle" /\ "CloseRequested" \in pending
    /\ pending' = pending \ {"CloseRequested"}
    /\ op' = [op EXCEPT ![EventThread] = "close"]
    /\ Did(EventThread, <<>>)
    /\ Goto(EventThread, "cl_store")
    /\ Disturb
    /\ UNCHANGED <<configVars, otherVars, platform, LAST_ACTIVE_APP, WINDOW_VISIBLE, fg, winExists, winVisible,
                   shellUp, spc, monitorVars, handlerLocals>>

\* on_window_event, WindowEvent::CloseRequested: api.prevent_close()
CloseBegin ==
    /\ UNCHANGED entry
    /\ spc = "done" /\ pc[EventThread] = "idle" /\ "CloseRequested" \in pending
    /\ pending' = pending \ {"CloseRequested"}
    /\ op' = [op EXCEPT ![EventThread] = "close"]
    /\ Did(EventThread, <<Request("prevent_close")>>)
    /\ Goto(EventThread, "cl_store")
    /\ Disturb
    /\ UNCHANGED <<configVars, otherVars, platform, LAST_ACTIVE_APP, WINDOW_VISIBLE, fg, winExists, winVisible,
                   shellUp, spc, monitorVars, handlerLocals>>

\* on_window_event, CloseRequested: WINDOW_VISIBLE.store(false)
CloseStore ==
    /\ UNCHANGED entry
    /\ pc[EventThread] = "cl_store"
    /\ WINDOW_VISIBLE' = FALSE
    /\ Did(EventThread, <<Stored(WINDOW_VISIBLE')>>)
    /\ Goto(EventThread, "cl_hide")
    /\ UNCHANGED <<configVars, otherVars, platform, LAST_ACTIVE_APP, fg, winExists, winVisible, shellUp, pending,
                   spc, monitorVars, op, handlerLocals, pair>>

\* on_window_event, CloseRequested: let _ = event.window().hide()
CloseHide ==
    /\ UNCHANGED entry
    /\ pc[EventThread] = "cl_hide"
    /\ WindowHide
    /\ Did(EventThread, <<Request("hide")>>)
    /\ Goto(EventThread, "ret")
    /\ UNCHANGED <<configVars, otherVars, platform, LAST_ACTIVE_APP, WINDOW_VISIBLE, winExists, shellUp, spc,
                   monitorVars, op, handlerLocals, pair>>

\* --------------------------------------------------------------------------
\* The environment: the user and the OS

\* Another window (or none) comes to the foreground; taking the foreground from
\* the main window raises Focused(false).
ForegroundChanges(w) ==
    /\ UNCHANGED entry
    /\ w \in ExternalWindows /\ w # fg
    /\ fg' = w
    /\ pending' = IF fg = OwnWindow THEN pending \cup {"FocusLost"} ELSE pending
    /\ Disturb
    /\ UNCHANGED <<configVars, otherVars, platform, LAST_ACTIVE_APP, WINDOW_VISIBLE, winExists, winVisible,
                   shellUp, spc, monitorVars, pc, op, handlerLocals, did>>

\* The user asks the visible main window to close (title bar, Alt+F4).
UserCloses ==
    /\ UNCHANGED entry
    /\ spc = "done" /\ winExists /\ winVisible /\ "CloseRequested" \notin pending
    /\ pending' = pending \cup {"CloseRequested"}
    /\ Disturb
    /\ UNCHANGED <<configVars, otherVars, platform, LAST_ACTIVE_APP, WINDOW_VISIBLE, fg, winExists, winVisible,
                   shellUp, spc, monitorVars, pc, op, handlerLocals, did>>

\* The window shell stops or resumes serving requests.
ShellChanges ==
    /\ UNCHANGED entry
    /\ spc = "done"
    /\ shellUp' = ~shellUp
    /\ Disturb
    /\ UNCHANGED <<configVars, otherVars, platform, LAST_ACTIVE_APP, WINDOW_VISIBLE, fg, winExists, winVisible,
                   pending, spc, monitorVars, pc, op, handlerLocals, did>>

\* --------------------------------------------------------------------------
\* The mutex of LAST_ACTIVE_APP, step by step: lock(), the statement under the
\* guard, and the guard's drop at the end of the statement.

\* The thread spawned by start_active_window_monitor.
MonitorThread == -1

\* update_last_active_app: no window information, nothing is locked.
MonitorSkip ==
    /\ UNCHANGED entry
    /\ mpc = "store" /\ minfo = None
    /\ mpc' = "sleep"
    /\ UNCHANGED <<configVars, otherVars, platform, LAST_ACTIVE_APP, WINDOW_VISIBLE, fg,
                   winExists, winVisible, shellUp, pending, spc, mvisible, minfo, pc, op,
                   active_app, did, held, pair>>

\* update_last_active_app: if let Ok(mut last_app) = LAST_ACTIVE_APP.lock()
MonitorLock ==
    /\ UNCHANGED entry
    /\ mpc = "store" /\ minfo # None
    /\ mutex = None
    /\ mutex' = Some(MonitorThread)
    /\ mpc' = "locked"
    /\ UNCHANGED <<configVars, matchVars, overlayVars, exactVars, platform, LAST_ACTIVE_APP,
                   WINDOW_VISIBLE, fg, winExists, winVisible, shellUp, pending, spc,
                   mvisible, minfo, pc, op, active_app, did, held, pair>>

\* update_last_active_app: *last_app = Some(info), and the guard is dropped
MonitorStoreLocked ==
    /\ UNCHANGED entry
    /\ mpc = "locked"
    /\ LAST_ACTIVE_APP' = minfo
    /\ minfo' = None
    /\ mutex' = None
    /\ mpc' = "sleep"
    /\ UNCHANGED <<configVars, matchVars, overlayVars, exactVars, platform, WINDOW_VISIBLE,
                   fg, winExists, winVisible, shellUp, pending, spc, mvisible, pc, op,
                   active_app, did, held, pair>>

\* get_last_active_app: LAST_ACTIVE_APP.lock()
ToggleLastLock(t) ==
    /\ UNCHANGED entry
    /\ pc[t] = "tg_last"
    /\ mutex = None
    /\ mutex' = Some(t)
    /\ Goto(t, "tg_last_locked")
    /\ UNCHANGED <<configVars, matchVars, overlayVars, exactVars, platform, LAST_ACTIVE_APP,
                   WINDOW_VISIBLE, fg, winExists, winVisible, shellUp, pending, spc,
                   monitorVars, op, handlerLocals, did, pair>>

\* ToggleLastClone whose guard is never dropped.
ToggleLastCloneKeeps(t) ==
    /\ UNCHANGED entry
    /\ pc[t] = "tg_last_locked"
    /\ active_app' = [active_app EXCEPT ![t] = get_last_active_app]
    /\ held' = [held EXCEPT ![t] = LAST_ACTIVE_APP]
    /\ Did(t, <<Request("last")>>)
    /\ Goto(t, "tg_show_store")
    /\ pair' = IF pair.phase \in {1, 3}
               THEN [pair EXCEPT !.tracker = LAST_ACTIVE_APP] ELSE pair
    /\ UNCHANGED <<configVars, otherVars, platform, LAST_ACTIVE_APP, WINDOW_VISIBLE, fg,
                   winExists, winVisible, shellUp, pending, spc, monitorVars, op>>

\* get_last_active_app: .ok()?.clone(), and the guard is dropped
ToggleLastClone(t) ==
    /\ UNCHANGED entry
    /\ pc[t] = "tg_last_locked"
    /\ active_app' = [active_app EXCEPT ![t] = get_last_active_app]
    /\ held' = [held EXCEPT ![t] = LAST_ACTIVE_APP]
    /\ mutex' = None
    /\ Did(t, <<Request("last")>>)
    /\ Goto(t, "tg_show_store")
    /\ pair' = IF pair.phase \in {1, 3}
               THEN [pair EXCEPT !.tracker = LAST_ACTIVE_APP] ELSE pair
    /\ UNCHANGED <<configVars, matchVars, overlayVars, exactVars, platform, LAST_ACTIVE_APP,
                   WINDOW_VISIBLE, fg, winExists, winVisible, shellUp, pending, spc,
                   monitorVars, op>>

\* --------------------------------------------------------------------------
\* Configuration documents and their JSON text.  A document is the sequence of
\* its entries (a Shortcut by its action, an AppRule by its display name); a
\* JSON text is the sequence of its tokens.

\* Threads that call the commands which load and save the configuration.
NumCfgCallers == 2
\* Rewrites of a configuration file by the user's editor.
MaxEdits == 1

CfgCallers == 1..NumCfgCallers
Kinds == {"shortcuts", "apps"}

\* ShortcutsConfig::default() and AppsConfig::default(), cut to two entries;
\* of the shortcuts, one with a key on both platforms (id 1) and one without a
\* key on windows (id 38).
get_default_shortcuts == <<"copy", "spotlight">>
get_default_apps == <<"Chrome", "Edge">>
Default(k) == IF k = "shortcuts" THEN get_default_shortcuts ELSE get_default_apps

\* What deserializes as an entry of the document: a Shortcut, an AppRule.
Entries(k) == IF k = "shortcuts" THEN {"copy", "paste", "spotlight"} ELSE {"Chrome", "Edge"}

\* The key of a Shortcut that has none on a platform.
NoKey == "-"

\* struct Shortcut, by its action: the fields mac and windows.
Shortcut(action) ==
    [action |-> action,
     mac |-> IF action = "copy" THEN "Cmd+C" ELSE IF action = "paste" THEN "Cmd+V"
             ELSE "Cmd+Space",
     windows |-> IF action = "copy" THEN "Ctrl+C" ELSE IF action = "paste" THEN "Ctrl+V"
                 ELSE NoKey]

\* The entry's key for the build's platform.
PlatformKey(action) ==
    IF platform = "macos" THEN Shortcut(action).mac ELSE Shortcut(action).windows

\* The documents save_shortcuts is called with.
SavedShortcuts == {<<"copy">>, <<"paste", "copy">>}

\* serde_json::to_string_pretty of ShortcutsConfig { shortcuts } / AppsConfig { apps }
\* A serializer that drops the document's last entry.
to_string_pretty_cut(k, doc) ==
    <<"{", k, ":", "[">> \o (IF doc = <<>> THEN doc ELSE SubSeq(doc, 1, Len(doc) - 1))
                         \o <<"]", "}">>

to_string_pretty(k, doc) == <<"{", k, ":", "[">> \o doc \o <<"]", "}">>

\* serde_json::from_str::<ShortcutsConfig> / ::<AppsConfig>: Some(config) for an
\* object with the document's field holding a list of entries, None (Err) otherwise.
from_str(k, text) ==
    IF /\ Len(text) >= 6
       /\ SubSeq(text, 1, 4) = <<"{", k, ":", "[">>
       /\ SubSeq(text, Len(text) - 1, Len(text)) = <<"]", "}">>
       /\ \A i \in 5..(Len(text) - 2) : text[i] \in Entries(k)
    THEN Some(SubSeq(text, 5, Len(text) - 2))
    ELSE None

\* A file: absent, present but failing read_to_string, or holding a text.
Missing == [kind |-> "missing", text |-> <<>>]
Unreadable == [kind |-> "unreadable", text |-> <<>>]
Text(text) == [kind |-> "text", text |-> text]

\* A text that is not a JSON document.
Garbage == <<"{", "x">>

\* What the files hold when the program starts, and what an editor leaves.
Contents(k) ==
    {Missing, Unreadable, Text(Garbage), Text(to_string_pretty(k, Default(k)))}
    \cup (IF k = "shortcuts"
          THEN {Text(to_string_pretty(k, d)) : d \in SavedShortcuts}
          ELSE {Text(to_string_pretty(k, <<"Edge">>))})

\* get_config_dir / get_shortcuts_config_path / get_apps_config_path: None when
\* dirs::config_dir() is None.
get_config_path(k) == IF cfgDir = "undetermined" THEN None ELSE Some(k)

\* path.exists()
exists(k) == cfgDir = "present" /\ file[k].kind # "missing"

\* fs::read_to_string(&path): Some(content) for Ok, None for Err
read_to_string(k) ==
    IF cfgDir = "present" /\ file[k].kind = "text" THEN Some(file[k].text) ELSE None

\* The document a load with nothing else running returns for the file as it is.
Current(k) ==
    IF read_to_string(k) # None /\ from_str(k, read_to_string(k)[1]) # None
    THEN from_str(k, read_to_string(k)[1])[1]
    ELSE Default(k)

\* The file as a load finds it.
Condition(k) ==
    IF ~exists(k) THEN "missing"
    ELSE IF read_to_string(k) = None THEN "unreadable"
    ELSE IF from_str(k, read_to_string(k)[1]) = None THEN "unparsable"
    ELSE "parsed"

\* --------------------------------------------------------------------------
\* load_shortcuts_config / load_apps_config and save_shortcuts_config /
\* save_apps_config, which differ in the document's type and path only.

envVars == <<cfgDir, writable, edits>>

CGoto(t, label) == cpc' = [cpc EXCEPT ![t] = label]

\* Thread u is loading document k.
Loading(u, k) == cpc[u] # "idle" /\ cop[u] = "load" /\ ckind[u] = k
\* Thread u is in a save (its own or a load's) of document k.
Saving(u, k) == cpc[u] \in {"sv_mkdir", "sv_create", "sv_write"} /\ ckind[u] = k

\* Thread t's invocation starts: the running invocations are no longer alone.
Begins(t) ==
    alone' = [u \in CfgCallers |->
                IF u = t THEN \A v \in CfgCallers \ {t} : cpc[v] = "idle"
                ELSE IF cpc[u] # "idle" THEN FALSE ELSE alone[u]]

\* Thread t starts to save doc as document k: the loads of k that are running
\* run while that save is in progress.
Offers(t, k, doc) ==
    [u \in CfgCallers |-> IF u # t /\ Loading(u, k) THEN seen[u] \cup {doc} ELSE seen[u]]

\* The documents the model writes into a file.
Documents(k) ==
    {Default(k)} \cup (IF k = "shortcuts" THEN SavedShortcuts ELSE {<<"Edge">>})

\* Nothing is known of the file; a load that ran alone returned doc and the file
\* has not changed since; the editor wrote doc (after a load had returned `was`)
\* and the file has not changed since.
Unknown == [src |-> "", doc |-> <<>>, was |-> None]
Loaded(doc) == [src |-> "load", doc |-> doc, was |-> None]
Edited(doc, was) == [src |-> "edit", doc |-> doc, was |-> was]
\* A save wrote doc and returned Ok, and the file has not changed since.
Saved(doc) == [src |-> "save", doc |-> doc, was |-> None]

\* Thread t changes file k: what was known of it, and what the other loads of
\* k expected, stands no longer.
Changes(t, k) ==
    /\ known' = [known EXCEPT ![k] = Unknown]
    /\ expect' = [u \in CfgCallers |->
                    IF u # t /\ Loading(u, k) THEN Unknown ELSE expect[u]]

\* load: if let Some(path) = get_.._config_path() { if path.exists() {
LoadBegin(t, k) ==
    /\ cpc[t] = "idle"
    /\ cop' = [cop EXCEPT ![t] = "load"]
    /\ ckind' = [ckind EXCEPT ![t] = k]
    /\ CGoto(t, IF get_config_path(k) # None /\ exists(k) THEN "ld_read" ELSE "ld_default")
    /\ found' = [found EXCEPT ![t] = IF get_config_path(k) = None THEN "nopath"
                                     ELSE IF ~exists(k) THEN "missing" ELSE ""]
    /\ cfentry' = [cfentry EXCEPT ![t] = Condition(k)]
    /\ Begins(t)
    /\ seen' = [seen EXCEPT ![t] =
                  {Current(k)} \cup {config[u][1] : u \in {v \in CfgCallers : Saving(v, k)}}]
    /\ expect' = [expect EXCEPT ![t] = known[k]]
    /\ UNCHANGED <<windowVars, otherVars, envVars, file, config, json, loaded, saved, known>>

\* A load that drops the entries without a key for the platform.
LoadReadFiltered(t) ==
    /\ cpc[t] = "ld_read"
    /\ LET content == read_to_string(ckind[t])
           parsed == IF content = None THEN None ELSE from_str(ckind[t], content[1])
       IN  /\ found' = [found EXCEPT ![t] = IF content = None THEN "unreadable"
                                            ELSE IF parsed = None THEN "unparsable"
                                            ELSE "parsed"]
           /\ loaded' = [loaded EXCEPT ![t] =
                            IF parsed = None \/ ckind[t] # "shortcuts" THEN parsed
                            ELSE Some(SelectSeq(parsed[1],
                                                LAMBDA e : PlatformKey(e) # NoKey))]
           /\ CGoto(t, IF parsed # None THEN "cf_ret" ELSE "ld_default")
    /\ UNCHANGED <<windowVars, otherVars, envVars, file, cop, ckind, config, json, saved, cfentry,
                   alone, seen, known, expect>>

\* A load that does not use what it reads and falls back to the default.
LoadReadUnused(t) ==
    /\ cpc[t] = "ld_read"
    /\ found' = [found EXCEPT ![t] = "unparsable"]
    /\ loaded' = [loaded EXCEPT ![t] = None]
    /\ CGoto(t, "ld_default")
    /\ UNCHANGED <<windowVars, otherVars, envVars, file, cop, ckind, config, json, saved, cfentry,
                   alone, seen, known, expect>>

\* load: if let Ok(content) = fs::read_to_string(&path) {
\*           if let Ok(config) = serde_json::from_str(&content) { return config; } }
LoadRead(t) ==
    /\ cpc[t] = "ld_read"
    /\ LET content == read_to_string(ckind[t])
           parsed == IF content = None THEN None ELSE from_str(ckind[t], content[1])
       IN  /\ found' = [found EXCEPT ![t] = IF content = None THEN "unreadable"
                                            ELSE IF parsed = None THEN "unparsable"
                                            ELSE "parsed"]
           /\ loaded' = [loaded EXCEPT ![t] = parsed]
           /\ CGoto(t, IF parsed # None THEN "cf_ret" ELSE "ld_default")
    /\ UNCHANGED <<windowVars, otherVars, envVars, file, cop, ckind, config, json, saved, cfentry,
                   alone, seen, known, expect>>

\* load: let config = ..Config::default(); let _ = save_.._config(&config);
LoadDefault(t) ==
    /\ cpc[t] = "ld_default"
    /\ config' = [config EXCEPT ![t] = Some(Default(ckind[t]))]
    /\ CGoto(t, "sv_mkdir")
    /\ seen' = Offers(t, ckind[t], Default(ckind[t]))
    /\ UNCHANGED <<windowVars, otherVars, envVars, file, cop, ckind, json, loaded, saved, found,
                   cfentry, alone, known, expect>>

\* save_shortcuts: let config = ShortcutsConfig { shortcuts }; save_shortcuts_config(&config)
SaveBegin(t, doc) ==
    /\ cpc[t] = "idle"
    /\ cop' = [cop EXCEPT ![t] = "save"]
    /\ ckind' = [ckind EXCEPT ![t] = "shortcuts"]
    /\ config' = [config EXCEPT ![t] = Some(doc)]
    /\ CGoto(t, "sv_mkdir")
    /\ Begins(t)
    /\ seen' = Offers(t, "shortcuts", doc)
    /\ UNCHANGED <<windowVars, otherVars, envVars, file, json, loaded, saved, found, cfentry, known,
                   expect>>

\* SaveEnds for a load that gives up its document when the save failed.
SaveEndsPropagates(t, result) ==
    /\ saved' = [saved EXCEPT ![t] = result]
    /\ loaded' = [loaded EXCEPT ![t] =
                    IF cop[t] = "load" /\ result = "Ok" THEN config[t] ELSE None]
    /\ CGoto(t, "cf_ret")

\* The save returns result; a load that called it returns its `config`.
SaveEnds(t, result) ==
    /\ saved' = [saved EXCEPT ![t] = result]
    /\ loaded' = [loaded EXCEPT ![t] = IF cop[t] = "load" THEN config[t] ELSE None]
    /\ CGoto(t, "cf_ret")

\* save: let path = get_.._config_path().ok_or(..)?; fs::create_dir_all(parent)..?
SaveMkdir(t) ==
    /\ cpc[t] = "sv_mkdir"
    /\ IF get_config_path(ckind[t]) = None
       THEN SaveEnds(t, "NoConfigDir") /\ UNCHANGED cfgDir
       ELSE IF cfgDir = "blocked"
       THEN SaveEnds(t, "CreateDir") /\ UNCHANGED cfgDir
       ELSE /\ cfgDir' = "present"
            /\ CGoto(t, "sv_create")
            /\ UNCHANGED <<loaded, saved>>
    /\ UNCHANGED <<windowVars, otherVars, writable, edits, file, cop, ckind, config, json, found,
                   cfentry, alone, seen, known, expect>>

\* What a write of `new` at offset 0 leaves of a file that held `old`.
Overlay(new, old) == new \o SubSeq(old, Len(new) + 1, Len(old))

\* A save that drops fs::write's error and reports Ok.
SaveCreateSilent(t) ==
    /\ cpc[t] = "sv_create"
    /\ json' = [json EXCEPT ![t] = to_string_pretty(ckind[t], config[t][1])]
    /\ IF writable
       THEN /\ file' = [file EXCEPT ![ckind[t]] = Text(<<>>)]
            /\ CGoto(t, "sv_write")
            /\ Changes(t, ckind[t])
            /\ UNCHANGED <<loaded, saved>>
       ELSE /\ SaveEnds(t, "Ok")
            /\ UNCHANGED <<file, known, expect>>
    /\ UNCHANGED <<windowVars, otherVars, envVars, cop, ckind, config, found, cfentry, alone, seen>>

\* save: let json = serde_json::to_string_pretty(config)..?; fs::write(&path, json):
\* File::create(path) truncates the file, or fails
SaveCreate(t) ==
    /\ cpc[t] = "sv_create"
    /\ json' = [json EXCEPT ![t] = to_string_pretty(ckind[t], config[t][1])]
    /\ IF writable
       THEN /\ file' = [file EXCEPT ![ckind[t]] = Text(<<>>)]
            /\ CGoto(t, "sv_write")
            /\ Changes(t, ckind[t])
            /\ UNCHANGED <<loaded, saved>>
       ELSE /\ SaveEnds(t, "Write")
            /\ UNCHANGED <<file, known, expect>>
    /\ UNCHANGED <<windowVars, otherVars, envVars, cop, ckind, config, found, cfentry, alone, seen>>

\* SaveWrite that writes the text without its closing brace.
SaveWriteCut(t) ==
    /\ cpc[t] = "sv_write"
    /\ file' = [file EXCEPT ![ckind[t]] =
                  IF @.kind = "text"
                  THEN Text(Overlay(SubSeq(json[t], 1, Len(json[t]) - 1), @.text))
                  ELSE @]
    /\ SaveEnds(t, "Ok")
    /\ Changes(t, ckind[t])
    /\ UNCHANGED <<windowVars, otherVars, envVars, cop, ckind, config, json, found, cfentry, alone,
                   seen>>

\* save: fs::write(&path, json): write_all(json) through the handle File::create
\* opened, from offset 0; Ok(())
SaveWrite(t) ==
    /\ cpc[t] = "sv_write"
    /\ file' = [file EXCEPT ![ckind[t]] =
                  IF @.kind = "text" THEN Text(Overlay(json[t], @.text)) ELSE @]
    /\ SaveEnds(t, "Ok")
    /\ known' = [known EXCEPT ![ckind[t]] = Saved(config[t][1])]
    /\ expect' = [u \in CfgCallers |->
                    IF u # t /\ Loading(u, ckind[t]) THEN Unknown ELSE expect[u]]
    /\ UNCHANGED <<windowVars, otherVars, envVars, cop, ckind, config, json, found, cfentry, alone,
                   seen>>

\* The command returns to its caller.
CfgReturn(t) ==
    /\ cpc[t] = "cf_ret"
    /\ CGoto(t, "idle")
    /\ cop' = [cop EXCEPT ![t] = ""]
    /\ ckind' = [ckind EXCEPT ![t] = ""]
    /\ config' = [config EXCEPT ![t] = None]
    /\ json' = [json EXCEPT ![t] = <<>>]
    /\ loaded' = [loaded EXCEPT ![t] = None]
    /\ saved' = [saved EXCEPT ![t] = ""]
    /\ found' = [found EXCEPT ![t] = ""]
    /\ cfentry' = [cfentry EXCEPT ![t] = ""]
    /\ alone' = [alone EXCEPT ![t] = TRUE]
    /\ seen' = [seen EXCEPT ![t] = {}]
    /\ known' = IF cop[t] = "load" /\ alone[t]
                THEN [known EXCEPT ![ckind[t]] = Loaded(loaded[t][1])]
                ELSE known
    /\ expect' = [expect EXCEPT ![t] = Unknown]
    /\ UNCHANGED <<windowVars, otherVars, envVars, file>>

\* The user's editor (open_config_file, open_apps_config_file) replaces a file.
EditorWrites(k, content) ==
    /\ edits < MaxEdits /\ cfgDir = "present"
    /\ content \in Contents(k) /\ content # file[k]
    /\ file' = [file EXCEPT ![k] = content]
    /\ edits' = edits + 1
    /\ alone' = [u \in CfgCallers |-> IF cpc[u] # "idle" THEN FALSE ELSE alone[u]]
    /\ seen' = [u \in CfgCallers |->
                  IF Loading(u, k)
                  THEN seen[u] \cup {IF content.kind = "text" /\ from_str(k, content.text) # None
                                     THEN from_str(k, content.text)[1] ELSE Default(k)}
                  ELSE seen[u]]
    /\ known' = [known EXCEPT ![k] =
                   IF \E d \in Documents(k) : content = Text(to_string_pretty(k, d))
                   THEN Edited(CHOOSE d \in Documents(k) :
                                  content = Text(to_string_pretty(k, d)),
                               IF @.src = "load" THEN Some(@.doc) ELSE None)
                   ELSE Unknown]
    /\ expect' = [u \in CfgCallers |-> IF Loading(u, k) THEN Unknown ELSE expect[u]]
    /\ UNCHANGED <<windowVars, otherVars, cfgDir, writable, cpc, cop, ckind, config, json, loaded,
                   saved, found, cfentry>>

\* --------------------------------------------------------------------------
\* AppRule, AppRule::normalize, match_apps and get_matched_apps

\* The rules a list holds at most.
MaxRules == 2

\* enum AppRule { Simple(String), Detailed(AppRuleObject) }
Simple(name) == [Simple |-> name]
Detailed(display, process, window, per_platform) ==
    [display |-> display, process |-> process, window |-> window, platform |-> per_platform]
IsSimple(rule) == "Simple" \in DOMAIN rule

PlatformAppMatch(process, window) == [process |-> process, window |-> window]
PlatformConfig(windows, macos) == [windows |-> windows, macos |-> macos]
NormalizedAppRule(display, process, window) ==
    [display |-> display, process |-> process, window |-> window]

\* cfg!(target_os = "macos")
is_macos == platform = "macos"

\* A normalize that takes the window field for the process and the process
\* field for the window.
normalize_swapped(rule, macos) ==
    IF IsSimple(rule)
    THEN NormalizedAppRule(rule.Simple, Some(rule.Simple), Some(rule.Simple))
    ELSE NormalizedAppRule(rule.display, rule.window, rule.process)

\* A normalize that falls back to the common field where the settings for the
\* platform leave a field out.
normalize_fallback(rule, macos) ==
    IF IsSimple(rule)
    THEN NormalizedAppRule(rule.Simple, Some(rule.Simple), Some(rule.Simple))
    ELSE LET platform_match ==
                 IF rule.platform = None THEN None
                 ELSE IF macos THEN rule.platform[1].macos
                 ELSE rule.platform[1].windows
         IN  IF platform_match # None
             THEN NormalizedAppRule(rule.display,
                    IF platform_match[1].process # None THEN platform_match[1].process
                    ELSE rule.process,
                    IF platform_match[1].window # None THEN platform_match[1].window
                    ELSE rule.window)
             ELSE NormalizedAppRule(rule.display, rule.process, rule.window)

\* AppRule::normalize(&self, is_macos)
normalize(rule, macos) ==
    IF IsSimple(rule)
    THEN NormalizedAppRule(rule.Simple, Some(rule.Simple), Some(rule.Simple))
    ELSE LET platform_match ==
                 IF rule.platform = None THEN None
                 ELSE IF macos THEN rule.platform[1].macos
                 ELSE rule.platform[1].windows
         IN  IF platform_match # None
             THEN NormalizedAppRule(rule.display, platform_match[1].process,
                                    platform_match[1].window)
             ELSE NormalizedAppRule(rule.display, rule.process, rule.window)

\* The Greek letter sigma: capital (U+03A3), small (U+03C3) and small final
\* (U+03C2), each one character of a string.
CapitalSigma == "Sigma"
SmallSigma == "sigma"
FinalSigma == "final sigma"

\* Letters with a case, of the characters the model's strings are made of.
Cased(c) ==
    c \in {"c", "C", "x", "o", "d", "e", "V", "v", "S", "s",
           CapitalSigma, SmallSigma, FinalSigma}

\* char::to_lowercase, for a character other than capital sigma
to_lower(c) ==
    IF c = "C" THEN "c" ELSE IF c = "V" THEN "v" ELSE IF c = "S" THEN "s" ELSE c

\* str::to_lowercase: capital sigma maps to small sigma, except at the end of a word (after a cased
\* letter and not before one), where it maps to final sigma.
to_lowercase(s) ==
    [i \in 1..Len(s) |->
        IF s[i] = CapitalSigma
        THEN IF (i > 1 /\ Cased(s[i - 1])) /\ ~(i < Len(s) /\ Cased(s[i + 1]))
             THEN FinalSigma ELSE SmallSigma
        ELSE to_lower(s[i])]

\* A contains that finds no empty text.
contains_nonempty(hay, needle) ==
    /\ needle # <<>>
    /\ \E i \in 0..(Len(hay) - Len(needle)) : SubSeq(hay, i + 1, i + Len(needle)) = needle

\* str::contains(&str)
contains(hay, needle) ==
    \E i \in 0..(Len(hay) - Len(needle)) : SubSeq(hay, i + 1, i + Len(needle)) = needle

\* A closure that takes an absent field of the rule for the empty string.
MatchesAbsent(info, rule) ==
    LET text(field) == IF field = None THEN <<>> ELSE field[1]
    IN  \/ /\ info.process # None
           /\ contains(to_lowercase(info.process[1]), to_lowercase(text(rule.process)))
        \/ /\ info.window # None
           /\ contains(to_lowercase(info.window[1]), to_lowercase(text(rule.window)))

\* The closure of match_apps' filter_map: whether the normalized rule matches.
Matches(info, rule) ==
    LET by_process ==
            /\ rule.process # None /\ info.process # None
            /\ contains(to_lowercase(info.process[1]), to_lowercase(rule.process[1]))
        by_window ==
            /\ rule.window # None /\ info.window # None
            /\ contains(to_lowercase(info.window[1]), to_lowercase(rule.window[1]))
    IN  IF by_process THEN TRUE ELSE by_window

\* A match_apps that returns the first matching rule only.
RECURSIVE match_apps_first(_, _)
match_apps_first(info, apps) ==
    IF apps = <<>> THEN <<>>
    ELSE IF Matches(info, normalize(Head(apps), is_macos))
    THEN <<normalize(Head(apps), is_macos)>>
    ELSE match_apps_first(info, Tail(apps))

\* match_apps(info, apps): apps.iter().filter_map(..).collect()
RECURSIVE match_apps(_, _)
match_apps(info, apps) ==
    IF apps = <<>> THEN <<>>
    ELSE (IF Matches(info, normalize(Head(apps), is_macos))
          THEN <<normalize(Head(apps), is_macos)>> ELSE <<>>)
         \o match_apps(info, Tail(apps))

\* The process names and window titles of the snapshots, and the snapshots.
SnapshotTexts == {None, Some(<<"x", "c">>), Some(<<"C", CapitalSigma, "C">>)}
Snapshots == {ActiveWindowInfo(p, w) : p \in SnapshotTexts, w \in SnapshotTexts}

\* The rules of the lists: bare names, and detailed rules with and without
\* per-platform settings.
PlatformConfigs ==
    {None,
     Some(PlatformConfig(None, None)),
     Some(PlatformConfig(Some(PlatformAppMatch(Some(<<"C", CapitalSigma>>), Some(<<"x">>))), None)),
     Some(PlatformConfig(None, Some(PlatformAppMatch(None, None))))}
AppRules ==
    {Simple(n) : n \in {<<"C", CapitalSigma>>, <<"x">>, <<>>}}
    \cup {Detailed(<<"D">>, p, w, pf) :
            p \in {None, Some(<<"C">>)}, w \in {None, Some(<<"x">>)}, pf \in PlatformConfigs}
RuleLists == UNION {[1..n -> AppRules] : n \in 0..MaxRules}

\* get_matched_apps(info): the rules are cut in two parts at position c, and
\* match_apps is applied to the parts as well.
GetMatchedApps(c) ==
    /\ matched = None
    /\ c \in 0..Len(apps_config)
    /\ matched' = Some(IF request = None THEN <<>>
                       ELSE match_apps(request[1], apps_config))
    /\ parts' = IF request = None THEN <<>>
                ELSE <<match_apps(request[1], SubSeq(apps_config, 1, c)),
                       match_apps(request[1], SubSeq(apps_config, c + 1, Len(apps_config)))>>
    /\ UNCHANGED <<windowVars, configVars, overlayVars, exactVars, mutex, request, apps_config, normalized>>

\* rule.normalize(macos) for the i-th rule, and normalize(macos) of the result
\* taken as a detailed rule.
Normalize(i, macos) ==
    /\ normalized = None
    /\ i \in 1..Len(apps_config)
    /\ LET first == normalize(apps_config[i], macos)
       IN  normalized' =
               Some([rule |-> apps_config[i], macos |-> macos, first |-> first,
                     second |-> normalize(Detailed(first.display, first.process,
                                                   first.window, None), macos)])
    /\ UNCHANGED <<windowVars, configVars, overlayVars, exactVars, mutex, request, apps_config, matched,
                   parts>>

\* --------------------------------------------------------------------------
\* The exact matcher: app entries with alternative bind strings (AppConfig and
\* AppBind of build.rs), matched by full equality, case ignored.

\* enum AppBind { Single(String), Multiple(Vec<String>) }
Single(text) == [Single |-> text]
Multiple(texts) == [Multiple |-> texts]

\* struct AppConfig, cut to name and bind.
AppConfig(name, bind) == [name |-> name, bind |-> bind]

\* The alternative bind strings of an entry, in order.
BindStrings(app) ==
    IF app.bind = None THEN <<>>
    ELSE IF "Single" \in DOMAIN app.bind[1] THEN <<app.bind[1].Single>>
    ELSE app.bind[1].Multiple

\* Two texts are equal when case is ignored.
EqualsIgnoreCase(a, b) == to_lowercase(a) = to_lowercase(b)

\* A test by containment, as the substring matcher's.
BindContained(info, text) ==
    \/ info.process # None /\ contains(to_lowercase(info.process[1]), to_lowercase(text))
    \/ info.window # None /\ contains(to_lowercase(info.window[1]), to_lowercase(text))

\* The bind string equals the snapshot's process name or window title.
BindMatches(info, text) ==
    \/ info.process # None /\ EqualsIgnoreCase(info.process[1], text)
    \/ info.window # None /\ EqualsIgnoreCase(info.window[1], text)

\* The position of the entry's first bind string that matches (0: none does).
MatchingBind(info, app) ==
    LET hits == {i \in 1..Len(BindStrings(app)) : BindMatches(info, BindStrings(app)[i])}
    IN  IF hits = {} THEN 0 ELSE CHOOSE i \in hits : \A j \in hits : i <= j

\* match under the exact policy: the entries with a matching bind string, in
\* order, each with the position of the bind string it matched on.
RECURSIVE match_exact(_, _)
match_exact(info, entries) ==
    IF entries = <<>> THEN <<>>
    ELSE (IF MatchingBind(info, Head(entries)) # 0
          THEN <<[app |-> Head(entries), on |-> MatchingBind(info, Head(entries))]>>
          ELSE <<>>)
         \o match_exact(info, Tail(entries))

\* The texts of the exact matcher's snapshots and bind strings.
Code == <<"C", "o", "d", "e">>
Codex == <<"C", "o", "d", "e", "x">>
VSCode == <<"V", "S", " ", "C", "o", "d", "e">>
LowerCode == <<"c", "o", "d", "e">>

ExactSnapshots ==
    {ActiveWindowInfo(p, w) : p \in {None, Some(Code), Some(Codex), Some(LowerCode)},
                              w \in {None, Some(VSCode), Some(Codex)}}
BoundApps ==
    {AppConfig(Some(VSCode), Some(Multiple(<<VSCode, Code>>))),
     AppConfig(Some(Codex), Some(Single(Codex))),
     AppConfig(Some(Code), Some(Multiple(<<>>))),
     AppConfig(None, None)}
BoundAppLists == UNION {[1..n -> BoundApps] : n \in 0..MaxRules}

\* match(snapshot, rules) under the exact policy is called.
MatchExact ==
    /\ exact_matched = None
    /\ exact_matched' = Some(match_exact(exact_request, bound_apps))
    /\ UNCHANGED <<windowVars, configVars, matchVars, overlayVars, mutex,
                   exact_request, bound_apps>>

\* --------------------------------------------------------------------------
\* The overlay (OverlayController): show(shortcut_key), its deferred hides and
\* hide().  Time is a clock of ticks shorter than a call of show().

\* The shows in a run, the configured durations (in ticks) and the ticks of a run.
MaxShows == 2
MaxDuration == 2
MaxTime == 5

\* The shortcut keys the overlay is shown for.
ShortcutKeys == {<<"Ctrl", "+", "C">>, <<"F5">>}

\* The deferred hide of a show that has begun and scheduled none yet.
Unscheduled(key) ==
    [key |-> key, begun |-> now, shown |-> FALSE, at |-> None, due |-> None,
     fired |-> None, saw |-> FALSE, left |-> FALSE, cover |-> 0]

\* The deferred hide of show n is scheduled and has not fired.
Sleeping(n) == timers[n].due # None /\ timers[n].fired = None

\* The show that displayed the overlay last (0: none has).
Displayed == IF \E n \in 1..Len(timers) : timers[n].shown
             THEN CHOOSE n \in 1..Len(timers) :
                      timers[n].shown /\ \A m \in (n + 1)..Len(timers) : ~timers[m].shown
             ELSE 0

\* The window variables that the overlay leaves alone.
overlayFrame == <<platform, LAST_ACTIVE_APP, winExists, shellUp, spc, monitorVars, pc, op,
                  handlerLocals, did, held, entry, pair>>

\* A show that leaves the main window as it is.
OverlayShowKeepsMain(key) ==
    /\ opc = "idle" /\ Len(timers) < MaxShows
    /\ \A n \in 1..Len(timers) : timers[n].at # Some(now)
    /\ oentry' = [visible |-> winVisible, flag |-> WINDOW_VISIBLE]
    /\ odid' = <<>>
    /\ timers' = Append(timers, Unscheduled(key))
    /\ opc' = "ov_display"
    /\ UNCHANGED <<configVars, matchVars, exactVars, mutex, overlayFrame, WINDOW_VISIBLE, winVisible, fg,
                   pending, overlayVisible, now, overlay_duration>>

\* show(shortcut_key), step 1: hide the main window, the controller goes to
\* Hidden.  (Step 2 computes the overlay's width from the key.)
OverlayShow(key) ==
    /\ opc = "idle" /\ Len(timers) < MaxShows
    /\ \A n \in 1..Len(timers) : timers[n].at # Some(now)
    /\ oentry' = [visible |-> winVisible, flag |-> WINDOW_VISIBLE]
    /\ WINDOW_VISIBLE' = FALSE
    /\ WindowHide
    /\ odid' = <<Stored(FALSE), Request("hide")>>
    /\ timers' = Append(timers, Unscheduled(key))
    /\ opc' = "ov_display"
    /\ UNCHANGED <<configVars, matchVars, exactVars, mutex, overlayFrame, overlayVisible, now,
                   overlay_duration>>

\* show, step 3: resize and center the overlay, show it without the focus,
\* give the focus back to the window that had it.
OverlayDisplay ==
    /\ opc = "ov_display"
    /\ overlayVisible' = IF shellUp THEN TRUE ELSE overlayVisible
    /\ odid' = odid \o <<Request("resize"), Request("show_overlay"),
                         Request("restore_focus")>>
    /\ timers' = [timers EXCEPT ![Len(timers)].shown = shellUp]
    /\ opc' = "ov_emit"
    /\ UNCHANGED <<configVars, matchVars, exactVars, mutex, windowVars, now, overlay_duration, oentry>>

\* show, step 4: emit overlay-show with the key and the configured duration.
OverlayEmit ==
    /\ opc = "ov_emit"
    /\ odid' = odid \o <<Emit("overlay-show",
                              Some([key |-> timers[Len(timers)].key,
                                    duration |-> overlay_duration]))>>
    /\ opc' = "ov_schedule"
    /\ UNCHANGED <<configVars, matchVars, exactVars, mutex, windowVars, overlayVisible, now,
                   overlay_duration, timers, oentry>>

\* show, step 5: schedule a deferred hide of its own after the configured
\* duration; show returns.
OverlaySchedule ==
    /\ opc = "ov_schedule"
    /\ timers' = [timers EXCEPT ![Len(timers)].at = Some(now),
                                ![Len(timers)].due = Some(now + overlay_duration)]
    /\ opc' = "idle"
    /\ UNCHANGED <<configVars, matchVars, exactVars, mutex, windowVars, overlayVisible, now,
                   overlay_duration, odid, oentry>>

\* A deferred hide that hides the overlay only when no later show has begun.
DeferredHideLatest(n) ==
    /\ n \in 1..Len(timers) /\ Sleeping(n) /\ timers[n].due = Some(now)
    /\ overlayVisible' = IF n = Len(timers) THEN FALSE ELSE overlayVisible
    /\ timers' = [timers EXCEPT ![n].fired = Some(now),
                                ![n].saw = overlayVisible,
                                ![n].left = overlayVisible',
                                ![n].cover = Displayed]
    /\ UNCHANGED <<configVars, matchVars, exactVars, mutex, windowVars, now, overlay_duration, opc, odid,
                   oentry>>

\* The deferred hide of show n: its duration has elapsed, it hides the overlay
\* by force.
DeferredHide(n) ==
    /\ n \in 1..Len(timers) /\ Sleeping(n) /\ timers[n].due = Some(now)
    /\ overlayVisible' = FALSE
    /\ timers' = [timers EXCEPT ![n].fired = Some(now),
                                ![n].saw = overlayVisible,
                                ![n].left = overlayVisible',
                                ![n].cover = Displayed]
    /\ UNCHANGED <<configVars, matchVars, exactVars, mutex, windowVars, now, overlay_duration, opc, odid,
                   oentry>>

\* hide(): request the overlay hidden.
OverlayHide ==
    /\ opc = "idle" /\ overlayVisible
    /\ overlayVisible' = IF shellUp THEN FALSE ELSE overlayVisible
    /\ UNCHANGED <<configVars, matchVars, exactVars, mutex, windowVars, now, overlay_duration, opc, odid,
                   oentry, timers>>

\* A clock that goes on while a deferred hide is due.
TickPastDue ==
    /\ now < MaxTime
    /\ now' = now + 1
    /\ UNCHANGED <<configVars, matchVars, exactVars, mutex, windowVars, overlayVisible, overlay_duration,
                   opc, odid, oentry, timers>>

\* A tick of the clock: no deferred hide is due.
Tick ==
    /\ now < MaxTime
    /\ \A n \in 1..Len(timers) : Sleeping(n) => timers[n].due[1] > now
    /\ now' = now + 1
    /\ UNCHANGED <<configVars, matchVars, exactVars, mutex, windowVars, overlayVisible, overlay_duration,
                   opc, odid, oentry, timers>>

\* --------------------------------------------------------------------------
\* The specification of the window handlers and the monitor

WindowStart ==
    /\ platform \in Platforms
    /\ LAST_ACTIVE_APP = None
    /\ WINDOW_VISIBLE = FALSE
    /\ fg \in ExternalWindows
    /\ winExists = TRUE
    /\ winVisible = FALSE
    /\ shellUp = TRUE
    /\ pending = {}
    /\ spc = "start"
    /\ mpc = "off"
    /\ mvisible = FALSE
    /\ minfo = None
    /\ pc = [t \in Threads |-> "idle"]
    /\ op = [t \in Threads |-> ""]
    /\ active_app = [t \in Threads |-> None]
    /\ did = [t \in Threads |-> <<>>]
    /\ held = [t \in Threads |-> None]
    /\ entry = [t \in Threads |-> NoEntry]
    /\ pair = PairIdle
    /\ mutex = None

\* The configuration as the process finds it, no command running.
ConfigStart ==
    /\ cfgDir \in {"undetermined", "blocked", "absent", "present"}
    /\ writable \in BOOLEAN
    /\ file \in [Kinds -> UNION {Contents(k) : k \in Kinds}]
    /\ \A k \in Kinds : file[k] \in Contents(k)
    /\ cfgDir # "present" => \A k \in Kinds : file[k] = Missing
    /\ edits = 0
    /\ cpc = [t \in CfgCallers |-> "idle"]
    /\ cop = [t \in CfgCallers |-> ""]
    /\ ckind = [t \in CfgCallers |-> ""]
    /\ config = [t \in CfgCallers |-> None]
    /\ json = [t \in CfgCallers |-> <<>>]
    /\ loaded = [t \in CfgCallers |-> None]
    /\ saved = [t \in CfgCallers |-> ""]
    /\ found = [t \in CfgCallers |-> ""]
    /\ cfentry = [t \in CfgCallers |-> ""]
    /\ alone = [t \in CfgCallers |-> TRUE]
    /\ seen = [t \in CfgCallers |-> {}]
    /\ known = [k \in Kinds |-> Unknown]
    /\ expect = [t \in CfgCallers |-> Unknown]

\* The window handlers and the monitor, no configuration command being called.
\* No get_matched_apps command is called.
MatchIdle ==
    /\ request = None
    /\ apps_config = <<>>
    /\ matched = None
    /\ parts = <<>>
    /\ normalized = None

\* The exact matcher is not called.
ExactIdle ==
    /\ exact_request = ActiveWindowInfo(None, None)
    /\ bound_apps = <<>>
    /\ exact_matched = None

\* No overlay is shown and show has not been called.
OverlayIdle ==
    /\ overlayVisible = FALSE
    /\ now = 0
    /\ overlay_duration = 1
    /\ opc = "idle"
    /\ odid = <<>>
    /\ oentry = [visible |-> FALSE, flag |-> FALSE]
    /\ timers = <<>>

InitWindow ==
    /\ WindowStart
    /\ ConfigStart
    /\ MatchIdle
    /\ ExactIdle
    /\ OverlayIdle
    /\ cfgDir = "present" /\ writable /\ \A k \in Kinds : file[k] = Missing

NextHandlers ==
    \/ SetupStartMonitor \/ SetupRegister \/ SetupStore \/ SetupShow \/ SetupFocus
    \/ MonitorLoad \/ MonitorProbe \/ MonitorStore \/ MonitorSleep
    \/ \E t \in Callers :
         \/ ToggleBegin(t) \/ ToggleHideStore(t) \/ ToggleHide(t) \/ ToggleLast(t)
         \/ ToggleShowStore(t) \/ ToggleShow(t) \/ ToggleFocusEmit(t)
         \/ HideBegin(t) \/ EscapeBegin(t) \/ EscapeFocused(t)
         \/ HideStore(t) \/ HideEmit(t)
    \/ FocusLostBegin \/ FocusLostStore \/ FocusLostHide \/ FocusGained
    \/ CloseBegin \/ CloseStore \/ CloseHide
    \/ \E t \in Threads : Return(t)
    \/ \E w \in ExternalWindows : ForegroundChanges(w)
    \/ UserCloses

NextWindow == NextHandlers \/ ShellChanges

\* The monitor and the handlers, with a window shell whose calls may fail.
SpecWindow == InitWindow /\ [][NextWindow]_vars

\* --------------------------------------------------------------------------
\* The specification of the monitor and the handlers with the mutex of
\* LAST_ACTIVE_APP taken and released in steps of their own.

InitLocks == InitWindow /\ platform = "windows"

NextLocks ==
    \/ SetupStartMonitor \/ SetupRegister \/ SetupStore \/ SetupShow \/ SetupFocus
    \/ MonitorLoad \/ MonitorProbe \/ MonitorSkip \/ MonitorLock \/ MonitorStoreLocked
    \/ MonitorSleep
    \/ \E t \in Callers :
         \/ ToggleBegin(t) \/ ToggleHideStore(t) \/ ToggleHide(t)
         \/ ToggleLastLock(t) \/ ToggleLastClone(t)
         \/ ToggleShowStore(t) \/ ToggleShow(t) \/ ToggleFocusEmit(t)
         \/ HideBegin(t) \/ EscapeBegin(t) \/ EscapeFocused(t)
         \/ HideStore(t) \/ HideEmit(t)
    \/ FocusLostBegin \/ FocusLostStore \/ FocusLostHide \/ FocusGained
    \/ CloseBegin \/ CloseStore \/ CloseHide
    \/ \E t \in Threads : Return(t)
    \/ \E w \in ExternalWindows : ForegroundChanges(w)
    \/ UserCloses

SpecLocks == InitLocks /\ [][NextLocks]_vars

\* A step of the monitor's loop other than lock().
MonitorStep ==
    MonitorLoad \/ MonitorProbe \/ MonitorSkip \/ MonitorStoreLocked \/ MonitorSleep

\* A step of a running handler of thread t other than lock().
HandlerStep(t) ==
    \/ ToggleHideStore(t) \/ ToggleHide(t) \/ ToggleLastClone(t)
    \/ ToggleShowStore(t) \/ ToggleShow(t) \/ ToggleFocusEmit(t)
    \/ EscapeFocused(t) \/ HideStore(t) \/ HideEmit(t)
    \/ Return(t)

\* A step of the event loop: a pending window event is dispatched, or its
\* handler goes on.
EventStep ==
    \/ FocusLostBegin \/ FocusLostStore \/ FocusLostHide \/ FocusGained
    \/ CloseBegin \/ CloseStore \/ CloseHide
    \/ Return(EventThread)

\* Threads that run keep running; a thread that waits in lock() gets the mutex
\* if it is free again and again (the monitor sleeps 200 ms between two
\* updates, and a handler locks once per invocation).
FairLocks ==
    /\ WF_vars(SetupStartMonitor \/ SetupRegister \/ SetupStore \/ SetupShow \/ SetupFocus)
    /\ WF_vars(EventStep)
    /\ WF_vars(MonitorStep)
    /\ SF_vars(MonitorLock)
    /\ \A t \in Callers : WF_vars(HandlerStep(t)) /\ SF_vars(ToggleLastLock(t))

SpecLocksFair == SpecLocks /\ FairLocks

\* --------------------------------------------------------------------------
\* The specification of the probe's process name: the monitor runs with a
\* window in the foreground whose executable is a base name followed by up to
\* MaxExts executable extensions in lower, upper or mixed case.

MaxExts == 2

ExeMixed == <<".", "E", "x", "e">>
Extensions == {ExeLower, ExeUpper, ExeMixed}

RECURSIVE Concat(_)
Concat(list) == IF list = <<>> THEN <<>> ELSE Head(list) \o Concat(Tail(list))

\* GetModuleBaseNameW's results.
BaseNames == {<<"B">>, <<"e", "x", "e">>}
ModuleNames ==
    {base \o Concat(exts) :
        base \in BaseNames, exts \in UNION {[1..n -> Extensions] : n \in 0..MaxExts}}

\* Another application's window whose executable is name.
AppNamed(name) == [hwnd |-> 4, pid |-> 13, exe |-> Some(name), title |-> Some(<<"B">>)]

\* The window of an application whose executable is name comes to the
\* foreground.
AppComesForward(name) ==
    /\ UNCHANGED entry
    /\ AppNamed(name) # fg
    /\ fg' = AppNamed(name)
    /\ pending' = IF fg = OwnWindow THEN pending \cup {"FocusLost"} ELSE pending
    /\ Disturb
    /\ UNCHANGED <<configVars, otherVars, platform, LAST_ACTIVE_APP, WINDOW_VISIBLE, winExists,
                   winVisible, shellUp, spc, monitorVars, pc, op, handlerLocals, did>>

InitProbe ==
    /\ WindowStart /\ platform = "windows"
    /\ ConfigStart
    /\ cfgDir = "present" /\ writable /\ \A k \in Kinds : file[k] = Missing
    /\ MatchIdle
    /\ ExactIdle
    /\ OverlayIdle

NextProbe ==
    \/ SetupStartMonitor
    \/ MonitorLoad \/ MonitorProbe \/ MonitorStore \/ MonitorSleep
    \/ \E name \in ModuleNames : AppComesForward(name)

SpecProbe == InitProbe /\ [][NextProbe]_vars

\* --------------------------------------------------------------------------
\* The specification of the configuration commands

\* The configuration commands, the window staying as the process starts it.
InitConfig ==
    /\ WindowStart
    /\ platform = "windows" /\ fg = AppA
    /\ ConfigStart
    /\ MatchIdle
    /\ ExactIdle
    /\ OverlayIdle

NextConfig ==
    \/ \E t \in CfgCallers :
         \/ \E k \in Kinds : LoadBegin(t, k)
         \/ LoadRead(t) \/ LoadDefault(t)
         \/ \E doc \in SavedShortcuts : SaveBegin(t, doc)
         \/ SaveMkdir(t) \/ SaveCreate(t) \/ SaveWrite(t)
         \/ CfgReturn(t)
    \/ \E k \in Kinds : \E content \in Contents(k) : EditorWrites(k, content)

SpecConfig == InitConfig /\ [][NextConfig]_vars

\* --------------------------------------------------------------------------
\* The specification of get_matched_apps: the command is called once with a
\* snapshot (or none) and a list of rules, on each platform.

InitMatch ==
    /\ WindowStart /\ fg = AppA
    /\ ConfigStart
    /\ cfgDir = "present" /\ writable /\ \A k \in Kinds : file[k] = Missing
    /\ request \in {None} \cup {Some(info) : info \in Snapshots}
    /\ apps_config \in RuleLists
    /\ matched = None
    /\ parts = <<>>
    /\ normalized = None
    /\ OverlayIdle
    /\ ExactIdle

NextMatch ==
    \/ \E c \in 0..MaxRules : GetMatchedApps(c)
    \/ \E i \in 1..MaxRules : \E macos \in BOOLEAN : Normalize(i, macos)

SpecMatch == InitMatch /\ [][NextMatch]_vars

\* --------------------------------------------------------------------------
\* The specification of the exact matcher: match is called once with a
\* snapshot and a list of entries.

InitExact ==
    /\ WindowStart /\ platform = "windows" /\ fg = AppA
    /\ ConfigStart
    /\ cfgDir = "present" /\ writable /\ \A k \in Kinds : file[k] = Missing
    /\ MatchIdle
    /\ OverlayIdle
    /\ exact_request \in ExactSnapshots
    /\ bound_apps \in BoundAppLists
    /\ exact_matched = None

NextExact == MatchExact

SpecExact == InitExact /\ [][NextExact]_vars

\* --------------------------------------------------------------------------
\* The specification of the overlay: show is called while the main window is
\* shown, or hidden, after startup, with the monitor asleep.

InitOverlay ==
    /\ platform = "windows"
    /\ LAST_ACTIVE_APP = get_active_window_info("windows", AppA)
    /\ \/ WINDOW_VISIBLE = TRUE /\ winVisible = TRUE /\ fg = OwnWindow
       \/ WINDOW_VISIBLE = FALSE /\ winVisible = FALSE /\ fg = AppA
    /\ winExists = TRUE
    /\ shellUp \in BOOLEAN
    /\ pending = {}
    /\ spc = "done"
    /\ mpc = "sleep"
    /\ mvisible = FALSE
    /\ minfo = None
    /\ pc = [t \in Threads |-> "idle"]
    /\ op = [t \in Threads |-> ""]
    /\ active_app = [t \in Threads |-> None]
    /\ did = [t \in Threads |-> <<>>]
    /\ held = [t \in Threads |-> None]
    /\ entry = [t \in Threads |-> NoEntry]
    /\ pair = PairIdle
    /\ mutex = None
    /\ ConfigStart
    /\ cfgDir = "present" /\ writable /\ \A k \in Kinds : file[k] = Missing
    /\ MatchIdle
    /\ ExactIdle
    /\ overlayVisible = FALSE
    /\ now = 0
    /\ overlay_duration \in 1..MaxDuration
    /\ opc = "idle"
    /\ odid = <<>>
    /\ oentry = [visible |-> FALSE, flag |-> FALSE]
    /\ timers = <<>>

NextOverlay ==
    \/ \E key \in ShortcutKeys : OverlayShow(key)
    \/ OverlayDisplay \/ OverlayEmit \/ OverlaySchedule
    \/ \E n \in 1..MaxShows : DeferredHide(n)
    \/ OverlayHide
    \/ Tick

SpecOverlay == InitOverlay /\ [][NextOverlay]_vars

\* The overlay with a show that goes on to its end, a clock that goes on and
\* deferred hides that run when they are due.
FairOverlay ==
    /\ WF_vars(OverlayDisplay) /\ WF_vars(OverlayEmit) /\ WF_vars(OverlaySchedule)
    /\ WF_vars(Tick)
    /\ \A n \in 1..MaxShows : WF_vars(DeferredHide(n))

SpecOverlayFair == SpecOverlay /\ FairOverlay

\* --------------------------------------------------------------------------
\* Properties of the monitor and of the window handlers (under SpecWindow)

\* C1, as stated: in every interleaving of the poll loop with the handlers (the
\* setup has completed), no step replaces the stored snapshot while
\* WINDOW_VISIBLE is true.
C1_NoWriteWhileVisible ==
    [][spc = "done" /\ WINDOW_VISIBLE => LAST_ACTIVE_APP' = LAST_ACTIVE_APP]_vars

\* C1, amended: the stored snapshot is replaced only by the monitor, in an
\* iteration whose load of WINDOW_VISIBLE returned false; an iteration that loads
\* true neither probes nor writes, whatever the foreground window is.
C1_WriteOnlyAfterHiddenLoad ==
    [][/\ LAST_ACTIVE_APP' # LAST_ACTIVE_APP => mpc = "store" /\ ~mvisible
       /\ mpc = "load" /\ mpc' # "load" /\ WINDOW_VISIBLE => mpc' = "sleep"
       /\ mpc' \in {"probe", "store"} => ~mvisible']_vars

\* C1's case: the flag is true, the monitor has finished an iteration that
\* loaded true, and another application's window, not the stored one, is in front.
C1_Witness ==
    /\ WINDOW_VISIBLE /\ mpc = "sleep" /\ mvisible
    /\ LAST_ACTIVE_APP # None
    /\ fg \in ExternalWindows
    /\ get_active_window_info(platform, fg) # LAST_ACTIVE_APP

\* What toggle_window does on its hidden branch, given the snapshot it read.
ShownDid(snapshot) ==
    <<Request("last"), Stored(TRUE), Request("center"), Request("show"),
      Request("set_focus"), Emit("window-shown", snapshot)>>

C5_FlagMatchesWindow ==
    Quiet => WINDOW_VISIBLE = winVisible

\* What hide_window does.
HiddenDid == <<Stored(FALSE), Request("hide"), Emit("window-hidden", None)>>

\* C6: hide(), invoked in any state, stores false in the flag, requests hide and
\* emits one window-hidden notification with an empty payload; none of its steps
\* changes the stored snapshot.
C6_ExplicitHide ==
    [][\A t \in Callers :
         op[t] = "hide" /\ pc'[t] # pc[t]
            => /\ LAST_ACTIVE_APP' = LAST_ACTIVE_APP
               /\ pc[t] = "ret" => did[t] = HiddenDid
               /\ pc[t] = "hd_store" => ~WINDOW_VISIBLE']_vars

\* C6's case: a hide() invoked while the window was already hidden has returned.
C6_Witness ==
    \E t \in Callers :
        /\ pc[t] = "ret" /\ op[t] = "hide" /\ entry[t] = "Hidden"
        /\ did[t] = HiddenDid /\ LAST_ACTIVE_APP # None

\* C7: the focus-lost handler stores false in the flag and requests hide, and
\* emits nothing; the focus-gained handler does nothing at all.
C7_FocusEvents ==
    [][/\ op[EventThread] = "focus_lost" /\ pc[EventThread] = "ret"
            => did[EventThread] = <<Stored(FALSE), Request("hide")>>
       /\ op[EventThread] = "focus_lost" /\ pc[EventThread] = "fl_store"
          /\ pc'[EventThread] # "fl_store" => ~WINDOW_VISIBLE'
       /\ pc'[EventThread] # pc[EventThread]
          /\ (op[EventThread] = "focus_gained" \/ op'[EventThread] = "focus_gained")
            => /\ did'[EventThread] = <<>>
               /\ UNCHANGED <<WINDOW_VISIBLE, winVisible, fg, LAST_ACTIVE_APP,
                              pending, winExists>>]_vars

\* C7's case: the focus-lost handler has hidden the window.
C7_Witness ==
    /\ op[EventThread] = "focus_lost" /\ pc[EventThread] = "ret"
    /\ ~WINDOW_VISIBLE /\ ~winVisible

\* C8: the main window is never destroyed: the close-request handler prevents
\* the default close, stores false in the flag and requests hide, so toggle
\* finds the window whenever it is invoked.
C8_CloseKeepsWindow ==
    /\ winExists
    /\ op[EventThread] = "close" /\ pc[EventThread] = "ret"
         => did[EventThread] = <<Request("prevent_close"), Stored(FALSE), Request("hide")>>

\* C8's case: the close-request handler has hidden the window, and a toggle
\* invoked on the hidden window has shown it again.
C8_Witness ==
    /\ op[EventThread] = "close" /\ pc[EventThread] = "ret" /\ shellUp
    /\ did[EventThread] = <<Request("prevent_close"), Stored(FALSE), Request("hide")>>
    /\ winExists /\ winVisible
    /\ \E t \in Callers : pc[t] = "ret" /\ op[t] = "toggle" /\ entry[t] = "Hidden"

\* --------------------------------------------------------------------------
\* Properties of the configuration commands (under SpecConfig)

\* C9, as stated: a load returns the document that was stored when it was
\* invoked, or one stored while it ran, or one whose save was in progress while
\* it ran.
C9_LoadSeesStoredOrSaved ==
    \A t \in CfgCallers :
        cpc[t] = "cf_ret" /\ cop[t] = "load" => loaded[t][1] \in seen[t]

\* The file as C10 supposes it: missing, unreadable or unparsable.
Unusable == {"missing", "unreadable", "unparsable"}

\* C10, as stated: a load invoked on a missing, unreadable or unparsable file,
\* with nothing else touching the files meanwhile, returns the default document
\* and leaves a file that parses to the default.
C10_DefaultFilePresent ==
    \A t \in CfgCallers :
        cpc[t] = "cf_ret" /\ cop[t] = "load" /\ cfentry[t] \in Unusable /\ alone[t]
            => /\ loaded[t] = Some(Default(ckind[t]))
               /\ exists(ckind[t])
               /\ read_to_string(ckind[t]) # None
               /\ from_str(ckind[t], read_to_string(ckind[t])[1]) = Some(Default(ckind[t]))

\* C10, amended: such a load returns the default document and has called save
\* with it; a file that parses to the default is present afterwards when that
\* save returned Ok, and the save's error is dropped otherwise.
C10_DefaultBestEffort ==
    \A t \in CfgCallers :
        cpc[t] = "cf_ret" /\ cop[t] = "load" /\ cfentry[t] \in Unusable /\ alone[t]
            => /\ loaded[t] = Some(Default(ckind[t]))
               /\ saved[t] \in {"Ok", "NoConfigDir", "CreateDir", "Write"}
               /\ saved[t] = "Ok"
                    => /\ exists(ckind[t])
                       /\ read_to_string(ckind[t]) # None
                       /\ from_str(ckind[t], read_to_string(ckind[t])[1])
                            = Some(Default(ckind[t]))

\* C10's case: a load of the apps document that found an unparsable file has
\* returned the default and rewritten the file.
C10_Witness ==
    \E t \in CfgCallers :
        /\ cpc[t] = "cf_ret" /\ cop[t] = "load" /\ ckind[t] = "apps"
        /\ cfentry[t] = "unparsable" /\ alone[t] /\ saved[t] = "Ok"
        /\ loaded[t] = Some(get_default_apps)
        /\ file["apps"] = Text(to_string_pretty("apps", get_default_apps))

\* --------------------------------------------------------------------------
\* Two consecutive loads of an unchanged file.

\* Thread t returns from a load of a document that an earlier load, run alone,
\* had returned as `known`, the file not having been changed by anyone else
\* since that load returned.
SecondLoad(t) ==
    /\ cpc[t] = "cf_ret" /\ cop[t] = "load"
    /\ expect[t].src = "load"

\* The load has called fs::read_to_string on the file.
ReadStorage(t) == found[t] \in {"unreadable", "unparsable", "parsed"}

LoadAfterEdit(t) ==
    /\ cpc[t] = "cf_ret" /\ cop[t] = "load"
    /\ expect[t].src = "edit"

\* C12: after the file's content was changed to a parseable document D, the
\* next load returns D, and not the different value that a load before the
\* change had returned.
C12_LoadReflectsEdit ==
    \A t \in CfgCallers :
        LoadAfterEdit(t) =>
            /\ loaded[t] = Some(expect[t].doc)
            /\ found[t] = "parsed"
            /\ (expect[t].was # None /\ expect[t].was[1] # expect[t].doc
                    => loaded[t] # expect[t].was)

\* C12's case: a load of the apps document had returned a value, the editor
\* then changed the file to another document, and the next load returns that
\* document.
C12_Witness ==
    \E t \in CfgCallers :
        /\ LoadAfterEdit(t) /\ ckind[t] = "apps"
        /\ expect[t].was # None /\ expect[t].was[1] # expect[t].doc
        /\ loaded[t] = Some(expect[t].doc)

\* --------------------------------------------------------------------------
\* The result of save_shortcuts

\* Thread t's save_shortcuts command returns to its caller.
SaveReturns(t) == cpc[t] = "cf_ret" /\ cop[t] = "save"

\* C13: save returns an error, never success, when the config directory cannot
\* be determined or created or the file cannot be written, and returns success
\* only after its write succeeded: the directory is there, the file is
\* writable, and after a save that ran alone the file holds the saved document.
C13_SaveReportsFailure ==
    \A t \in CfgCallers :
        SaveReturns(t) =>
            /\ saved[t] \in {"Ok", "NoConfigDir", "CreateDir", "Write"}
            /\ (cfgDir = "undetermined" => saved[t] = "NoConfigDir")
            /\ (cfgDir = "blocked" => saved[t] = "CreateDir")
            /\ (cfgDir \notin {"undetermined", "blocked"} /\ ~writable
                    => saved[t] = "Write")
            /\ (saved[t] = "Ok" =>
                    /\ cfgDir = "present" /\ writable
                    /\ json[t] = to_string_pretty("shortcuts", config[t][1])
                    /\ (alone[t] => file["shortcuts"] = Text(json[t])))

\* C13's case: a save whose file write failed has returned that error, the
\* file not holding the document.
C13_Witness ==
    \E t \in CfgCallers :
        /\ SaveReturns(t) /\ saved[t] = "Write" /\ ~writable
        /\ file["shortcuts"] # Text(json[t])

\* --------------------------------------------------------------------------
\* The matcher

\* The elements of a sequence.
Elems(seq) == {seq[i] : i \in 1..Len(seq)}

\* Simple case folding: letters that differ in case only fold to one letter.
Fold(c) == IF c = "C" THEN "c" ELSE IF c \in {CapitalSigma, FinalSigma} THEN SmallSigma ELSE c

\* needle is a substring of hay when case is ignored.
CaselessSubstring(needle, hay) ==
    \E i \in 0..(Len(hay) - Len(needle)) :
        \A j \in 1..Len(needle) : Fold(hay[i + j]) = Fold(needle[j])

\* get_matched_apps has returned for a snapshot.
HasMatched == matched # None /\ request # None

\* C14: a rule is in the result of match exactly when its normalized process
\* name is present and is a case-insensitive substring of the snapshot's process
\* name, or its normalized window fragment is present and is a case-insensitive
\* substring of the snapshot's window title.
C14_CaselessSubstringMatch ==
    HasMatched =>
        \A i \in 1..Len(apps_config) :
            LET rule == normalize(apps_config[i], is_macos)
                info == request[1]
            IN  rule \in Elems(matched[1])
                <=> \/ /\ rule.process # None /\ info.process # None
                       /\ CaselessSubstring(rule.process[1], info.process[1])
                    \/ /\ rule.window # None /\ info.window # None
                       /\ CaselessSubstring(rule.window[1], info.window[1])

\* C15: the result of match is the subsequence of the normalized rules that
\* match, in the rules' order, and the result for a list is the result for its
\* first part followed by the result for the rest, wherever the list is cut.
C15_ResultInOrder ==
    HasMatched =>
        /\ matched[1] =
              SelectSeq([i \in 1..Len(apps_config) |-> normalize(apps_config[i], is_macos)],
                        LAMBDA rule : Matches(request[1], rule))
        /\ matched[1] = parts[1] \o parts[2]

\* C15's case: both parts of the list contribute to the result, with
\* different rules.
C15_Witness ==
    /\ HasMatched
    /\ parts[1] # <<>> /\ parts[2] # <<>>
    /\ parts[1][1] # parts[2][1]
    /\ matched[1] = parts[1] \o parts[2]

\* C16: no rule whose normalized form has neither a process nor a window is in
\* the result, and the result for a snapshot with neither a process nor a
\* window is empty.
C16_NothingToCompare ==
    HasMatched =>
        /\ \A rule \in Elems(matched[1]) : rule.process # None \/ rule.window # None
        /\ (request[1].process = None /\ request[1].window = None => matched[1] = <<>>)

\* C16's case: the list holds a rule with neither field next to a rule that
\* matched the snapshot.
C16_Witness ==
    /\ HasMatched
    /\ matched[1] # <<>>
    /\ \E i \in 1..Len(apps_config) :
          LET rule == normalize(apps_config[i], is_macos)
          IN  rule.process = None /\ rule.window = None

\* C17: for every rule and either platform flag, normalizing the result of
\* normalize, taken as a detailed rule with the same display, process and
\* window, gives the result back.
C17_NormalizeIdempotent ==
    normalized # None => normalized[1].second = normalized[1].first

\* C17's case: a detailed rule whose settings for the platform replaced its
\* common process and window has been normalized twice.
C17_Witness ==
    /\ normalized # None
    /\ ~IsSimple(normalized[1].rule)
    /\ normalized[1].rule.platform # None
    /\ normalized[1].first.process # normalized[1].rule.process
    /\ normalized[1].first.window # normalized[1].rule.window
    /\ normalized[1].second = normalized[1].first

\* --------------------------------------------------------------------------
\* The application's own window is never reported.

\* The snapshot that describes the application's own window.
OwnInfo == ActiveWindowInfo(Some(StripExe(OwnWindow.exe[1])), OwnWindow.title)

\* The payloads of the window-shown events emitted so far.
ShownPayloads ==
    UNION {{did[t][i].payload : i \in {j \in 1..Len(did[t]) : did[t][j].event = "window-shown"}}
              : t \in Threads}

\* C18: a probe of the application's own window returns None, and a probe on a
\* platform without a native implementation returns None; the stored snapshot,
\* the snapshot the monitor is about to store and every window-shown payload
\* never describe the application's own window, and are None on such a platform.
C18_NeverOwnWindow ==
    /\ (fg = OwnWindow => get_active_window_info(platform, fg) = None)
    /\ (platform # "windows" => get_active_window_info(platform, fg) = None)
    /\ \A info \in {LAST_ACTIVE_APP, minfo} \cup ShownPayloads :
          /\ info # Some(OwnInfo)
          /\ (platform # "windows" => info = None)

\* C18's case: on windows the monitor has probed while the application's own
\* window was the foreground window and got None, and the snapshot stored
\* earlier, of another window, stays.
C18_Witness ==
    /\ platform = "windows"
    /\ fg = OwnWindow /\ mpc = "store" /\ minfo = None
    /\ LAST_ACTIVE_APP # None

\* --------------------------------------------------------------------------
\* The overlay's deferred hides

\* Show b was called after show a and before a's deferred hide fired, and a's
\* deferred hide has fired.
FiredUnderLaterShow(a, b) ==
    /\ a < b
    /\ timers[a].fired # None
    /\ timers[b].begun < timers[a].fired[1]

\* C19: each show schedules a deferred hide of its own; when a second show is
\* called before the first show's deferred hide fires, that deferred hide fires
\* when the first show's duration has elapsed, leaves the overlay hidden, and
\* does so before the second show's duration has elapsed.
C19_EarlierTimerHides ==
    /\ \A n \in 1..Len(timers) :
          n < Len(timers) \/ opc = "idle"
              => timers[n].due = Some(timers[n].at[1] + overlay_duration)
    /\ \A a, b \in 1..Len(timers) :
          FiredUnderLaterShow(a, b) =>
              /\ timers[a].fired = timers[a].due
              /\ ~timers[a].left
              /\ (timers[b].due # None => timers[a].fired[1] < timers[b].due[1])

\* C19's case: the second show has displayed the overlay and scheduled its
\* deferred hide; the first show's deferred hide has fired on the overlay the
\* second show displayed, and the overlay is hidden although the second show's
\* duration has not elapsed.
C19_Witness ==
    /\ Len(timers) = 2 /\ opc = "idle"
    /\ FiredUnderLaterShow(1, 2)
    /\ timers[1].saw /\ timers[1].cover = 2
    /\ Sleeping(2) /\ now < timers[2].due[1]
    /\ ~overlayVisible

\* show is in progress, past its first step.
ShowInProgress == opc \in {"ov_display", "ov_emit", "ov_schedule"}

\* C20: whatever the main window and the flag were when show was called, the
\* first things show does are to store false in the flag and to request the
\* main window hidden: past that step the flag is false, and the main window is
\* hidden if the shell serves requests.
C20_ShowHidesMainFirst ==
    ShowInProgress =>
        /\ Len(odid) >= 2
        /\ SubSeq(odid, 1, 2) = <<Stored(FALSE), Request("hide")>>
        /\ WINDOW_VISIBLE = FALSE
        /\ (shellUp => ~winVisible)

\* C20's case: show was called with the main window shown and the flag true,
\* and has hidden the window.
C20_Witness ==
    /\ ShowInProgress
    /\ oentry.visible /\ oentry.flag
    /\ ~winVisible /\ ~WINDOW_VISIBLE

\* --------------------------------------------------------------------------
\* Every show ends with the overlay hidden.

\* The deferred hide of show n is scheduled, within the ticks of the run.
ShowScheduled(n) ==
    /\ n <= Len(timers)
    /\ timers[n].due # None
    /\ timers[n].due[1] <= MaxTime

\* The deferred hide of show n has fired when its duration had elapsed and
\* left the overlay hidden.
HiddenOnTime(n) ==
    /\ n <= Len(timers)
    /\ timers[n].fired # None /\ timers[n].fired = timers[n].due
    /\ timers[n].due = Some(timers[n].at[1] + overlay_duration)
    /\ ~timers[n].left

\* C21: every show is eventually followed by the overlay being hidden: its
\* deferred hide fires when the configured duration has elapsed and hides the
\* overlay, whatever the main window's visibility and focus were.
C21_ShowLeadsToHidden ==
    \A n \in 1..MaxShows : ShowScheduled(n) ~> HiddenOnTime(n)

\* C21's case: show was called while the main window was shown and focused,
\* and its deferred hide has hidden the overlay it displayed.
C21_Witness ==
    \E n \in 1..MaxShows :
        /\ HiddenOnTime(n)
        /\ timers[n].saw /\ timers[n].cover = n
        /\ n = Len(timers) /\ oentry.visible /\ ~overlayVisible

\* --------------------------------------------------------------------------
\* What get_shortcuts returns

\* Thread t's get_shortcuts returns to its caller.
ShortcutsReturn(t) == cpc[t] = "cf_ret" /\ cop[t] = "load" /\ ckind[t] = "shortcuts"

\* The entries of a document that have no key for the build's platform.
Keyless(doc) == {e \in Elems(doc) : PlatformKey(e) = NoKey}

\* C23 as stated: no entry that get_shortcuts returns has "-" as its key for
\* the current platform.
C23_NoKeylessEntry ==
    \A t \in CfgCallers : ShortcutsReturn(t) => Keyless(loaded[t][1]) = {}

\* C23 as amended: get_shortcuts returns the shortcuts document as load
\* returned it, whole and in order, each entry with both platforms' keys; the
\* entries whose key for the current platform is "-" are returned with the rest.
C23_ReturnsWholeDocument ==
    \A t \in CfgCallers :
        ShortcutsReturn(t) /\ alone[t] =>
            /\ loaded[t] = Some(Current("shortcuts"))
            /\ Keyless(loaded[t][1]) = Keyless(Current("shortcuts"))

\* C23's case: get_shortcuts returns the document read from the file, with an
\* entry that has no key for the platform.
C23_Witness ==
    \E t \in CfgCallers :
        /\ ShortcutsReturn(t) /\ alone[t] /\ found[t] = "parsed"
        /\ Keyless(loaded[t][1]) # {}

\* --------------------------------------------------------------------------
\* The exact matcher

\* The entry with the bind strings "VS Code" and "Code".
VSCodeApp == AppConfig(Some(VSCode), Some(Multiple(<<VSCode, Code>>)))

\* The exact matcher has returned for a list that holds the entry.
ExactReturned == exact_matched # None /\ VSCodeApp \in Elems(bound_apps)

\* C24: the entry with the bind strings "VS Code" and "Code" matches a snapshot
\* whose process is "Code", on the second bind string, and does not match the
\* snapshot whose process is "Codex" (and that has no window title).
C24_ExactBinds ==
    ExactReturned =>
        /\ (exact_request.process = Some(Code) /\ exact_request.window # Some(VSCode)
               => [app |-> VSCodeApp, on |-> 2] \in Elems(exact_matched[1]))
        /\ (exact_request = ActiveWindowInfo(Some(Codex), None)
               => \A hit \in Elems(exact_matched[1]) : hit.app # VSCodeApp)

\* C24's case: the list holds the entry and the entry bound to "Codex"; for
\* the snapshot with the process "Codex" only the latter is returned.
C24_Witness ==
    /\ ExactReturned
    /\ exact_request = ActiveWindowInfo(Some(Codex), None)
    /\ exact_matched[1] = <<[app |-> AppConfig(Some(Codex), Some(Single(Codex))), on |-> 1]>>
    /\ Len(bound_apps) = 2

\* --------------------------------------------------------------------------
\* The mutex

\* The mutex is held only by a thread whose next step drops the guard, and that
\* step waits for nothing.
LockHeldBriefly ==
    /\ mutex \in {None, Some(MonitorThread)} \cup {Some(t) : t \in Callers}
    /\ mutex = Some(MonitorThread) <=> mpc = "locked"
    /\ \A t \in Callers : mutex = Some(t) <=> pc[t] = "tg_last_locked"

\* C25: no thread waits for a lock while it holds one, the monitor and the
\* handlers never block each other for good: the monitor's loop keeps coming
\* round, and every toggle and hide that was invoked returns.
C25_NoDeadlock ==
    /\ []LockHeldBriefly
    /\ (mpc = "store") ~> (mpc = "sleep")
    /\ (mpc = "sleep") ~> (mpc = "load")
    /\ \A t \in Callers : (pc[t] # "idle") ~> (pc[t] = "idle")

\* C25's case: a toggle waits in get_last_active_app for the mutex, which the
\* monitor holds.
C25_Witness ==
    \E t \in Callers : pc[t] = "tg_last" /\ mutex = Some(MonitorThread)

\* --------------------------------------------------------------------------
\* The tracker's consistency

\* The probe can observe the window w.
Observable(w) == get_active_window_info(platform, w) # None

\* The main window is hidden and the observable window w is in the foreground.
HiddenBehind(w) == ~winVisible /\ fg = w /\ Observable(w)

\* The stored snapshot is that of w.
Tracks(w) == LAST_ACTIVE_APP = get_active_window_info(platform, w)

\* C26: if the main window stays hidden and the foreground window stays an
\* observable external window, the stored snapshot becomes that window's.
C26_TracksForeground ==
    \A w \in ExternalWindows : HiddenBehind(w) ~> (Tracks(w) \/ ~HiddenBehind(w))

\* --------------------------------------------------------------------------
\* Startup

\* The controller is Visible: the flag is true, the main window is shown and
\* has the focus.
ControllerVisible == WINDOW_VISIBLE /\ winVisible /\ fg = OwnWindow

\* No handler runs and no window event waits for its handler.
NoEvent == Quiet /\ pending = {}

\* The step invokes no handler, raises no window event and does not change
\* the foreground window.
NoEventArrives == pc' = pc /\ pending' = pending /\ fg' = fg

LoadAfterSave(t) ==
    /\ cpc[t] = "cf_ret" /\ cop[t] = "load"
    /\ expect[t].src = "save"

\* C28: after a successful save of D with no later write, the next load
\* returns D.
C28_SaveThenLoad ==
    \A t \in CfgCallers : LoadAfterSave(t) => loaded[t] = Some(expect[t].doc)

\* --------------------------------------------------------------------------
\* What a load returns.

\* Thread t's load returns to its caller.
LoadReturns(t) == cpc[t] = "cf_ret" /\ cop[t] = "load"

\* C29: a load always returns a document, never an error: the parsed document,
\* or the default one, also when saving the default failed.
C29_LoadAlwaysReturns ==
    \A t \in CfgCallers :
        LoadReturns(t) =>
            /\ loaded[t] # None
            /\ found[t] # "parsed" => loaded[t] = Some(Default(ckind[t]))
            /\ found[t] # "parsed" => saved[t] \in {"Ok", "NoConfigDir", "CreateDir", "Write"}

\* C29's case: the file could not be parsed, the default could not be written,
\* and the load returns the default.
C29_Witness ==
    \E t \in CfgCallers :
        /\ LoadReturns(t) /\ found[t] = "unparsable" /\ saved[t] = "Write"
        /\ loaded[t] = Some(Default(ckind[t]))

\* --------------------------------------------------------------------------
\* The process name

\* The text is ".exe" in some case.
IsExeExtension(text) ==
    /\ Len(text) = 4 /\ text[1] = "."
    /\ text[2] \in {"e", "E"} /\ text[3] \in {"x", "X"} /\ text[4] \in {"e", "E"}

\* The name without one trailing executable extension, in whatever case.
WithoutExtension(name) ==
    IF Len(name) >= 4 /\ IsExeExtension(SubSeq(name, Len(name) - 3, Len(name)))
    THEN SubSeq(name, 1, Len(name) - 4)
    ELSE name

\* C30: the probe of a window whose executable has a name yields that name
\* without its one trailing extension, whatever the extension's case, and with
\* nothing else removed.
C30_OneExtensionStripped ==
    [][mpc = "probe" /\ mpc' = "store" /\ fg.exe # None
           => /\ minfo' # None
              /\ minfo'[1].process = Some(WithoutExtension(fg.exe[1]))]_vars

\* --------------------------------------------------------------------------
\* The stored snapshot is never reset.

\* C31: a probe that returned None leaves the stored snapshot as it is, and a
\* stored snapshot is never replaced by none.
C31_NeverReset ==
    [][/\ (mpc = "store" /\ minfo = None /\ mpc' # mpc
              => LAST_ACTIVE_APP' = LAST_ACTIVE_APP)
       /\ (LAST_ACTIVE_APP # None => LAST_ACTIVE_APP' # None)]_vars

\* C31's case: a snapshot is stored, the own window is in the foreground, and
\* the probe of the running iteration has returned None.
C31_Witness ==
    /\ LAST_ACTIVE_APP # None
    /\ mpc = "store" /\ minfo = None /\ fg = OwnWindow /\ platform = "windows"

\* --------------------------------------------------------------------------
\* A load and a save of the shortcuts at the same time.

\* Thread t's load of the shortcuts, invoked on a file that held a parseable
\* document, and thread u's save_shortcuts, which returned Ok, have both
\* completed and neither has returned yet; the editor has written nothing.
LoadAndSaveDone(t, u) ==
    /\ t # u
    /\ cpc[t] = "cf_ret" /\ cop[t] = "load" /\ ckind[t] = "shortcuts"
    /\ cfentry[t] = "parsed"
    /\ cpc[u] = "cf_ret" /\ cop[u] = "save" /\ saved[u] = "Ok"
    /\ edits = 0

\* C32: after a load of a valid file and a concurrent save_shortcuts have both
\* completed, the file holds the saved document, not the default one.
C32_SavedDocumentSurvives ==
    \A t, u \in CfgCallers :
        LoadAndSaveDone(t, u) =>
            /\ read_to_string("shortcuts") # None
            /\ from_str("shortcuts", read_to_string("shortcuts")[1]) = Some(config[u][1])

\* --------------------------------------------------------------------------
\* What normalize takes from where.

\* The settings of a detailed rule for the platform of the flag, if any.
Override(rule, macos) ==
    IF rule.platform = None THEN None
    ELSE IF macos THEN rule.platform[1].macos ELSE rule.platform[1].windows

\* C33: a bare name normalizes to display, process and window equal to the
\* name; a detailed rule keeps its display and takes process and window both
\* from its settings for the current platform when it has such settings (an
\* absent field stays absent), and both from the common fields otherwise.
C33_NormalizeByPlatform ==
    normalized # None =>
        LET r == normalized[1].rule
            n == normalized[1].first
        IN  IF IsSimple(r)
            THEN /\ n.display = r.Simple
                 /\ n.process = Some(r.Simple)
                 /\ n.window = Some(r.Simple)
            ELSE /\ n.display = r.display
                 /\ Override(r, normalized[1].macos) # None
                      => /\ n.process = Override(r, normalized[1].macos)[1].process
                         /\ n.window = Override(r, normalized[1].macos)[1].window
                 /\ Override(r, normalized[1].macos) = None
                      => /\ n.process = r.process
                         /\ n.window = r.window

\* C33's case: a detailed rule with a common process and window, and settings
\* for macos that name neither, has been normalized for macos.
C33_Witness ==
    /\ normalized # None
    /\ ~IsSimple(normalized[1].rule)
    /\ normalized[1].macos
    /\ normalized[1].rule.process # None /\ normalized[1].rule.window # None
    /\ Override(normalized[1].rule, TRUE) = Some(PlatformAppMatch(None, None))
    /\ normalized[1].first.process = None /\ normalized[1].first.window = None

\* --------------------------------------------------------------------------
\* The empty text as a rule.

\* The bare name "", and what it normalizes to.
EmptyName == Simple(<<>>)
EmptyRule == NormalizedAppRule(<<>>, Some(<<>>), Some(<<>>))

\* C34: a rule whose normalized process and window are the empty string is in
\* the result for every snapshot that has a process name, and for every
\* snapshot that has a window title.
C34_EmptyTextMatchesAll ==
    HasMatched /\ EmptyName \in Elems(apps_config) =>
        /\ request[1].process # None => EmptyRule \in Elems(matched[1])
        /\ request[1].window # None => EmptyRule \in Elems(matched[1])

\* C34's case: the list holds the empty name and a rule that does not match,
\* the snapshot has a window title and no process name, and the result is the
\* empty rule alone.
C34_Witness ==
    /\ HasMatched /\ Len(apps_config) = 2 /\ EmptyName \in Elems(apps_config)
    /\ request[1].process = None /\ request[1].window # None
    /\ matched[1] = <<EmptyRule>>

\* --------------------------------------------------------------------------
\* The Escape shortcut.

\* The main window exists, is visible and is focused, as the shell answers.
VisibleAndFocused == winExists /\ is_visible /\ is_focused

\* C35: the Escape handler goes on to hide_window only while the main window
\* is visible and focused, and then does what hide() does; otherwise it
\* returns having stored nothing, requested nothing and emitted nothing, and
\* its step leaves the flag and the window as they were.
C35_EscapeHidesOnlyFocused ==
    [][\A t \in Callers :
         op'[t] = "escape" /\ pc'[t] # pc[t]
            => /\ pc'[t] = "hd_store" => VisibleAndFocused
               /\ pc'[t] = "ret" =>
                    \/ pc[t] = "hd_hide" /\ did'[t] = HiddenDid
                    \/ /\ ~VisibleAndFocused
                       /\ did'[t] = <<>>
                       /\ UNCHANGED <<WINDOW_VISIBLE, winExists, winVisible>>]_vars

\* C35's case: Escape was pressed while the main window was visible without
\* being the foreground window, and the handler has returned with no effect.
C35_Witness ==
    \E t \in Callers :
        /\ op[t] = "escape" /\ pc[t] = "ret" /\ did[t] = <<>>
        /\ winExists /\ shellUp /\ winVisible /\ WINDOW_VISIBLE /\ fg # OwnWindow

====
